---------------------------- MODULE Spec2Model ----------------------------
(***************************************************************************)
(* Model of the document extraction engine (src/src/data_extractor.py):    *)
(* the four operations of DataExtractor (extract_text, extract_links,      *)
(* extract_images, extract_tables), the helpers merge_lines and            *)
(* infer_font_style, the loader call every operation starts with, and     *)
(* process_file of src/src/main.py, which runs the four in a row.          *)
(*                                                                         *)
(* Text is a sequence of one-character strings, so that trimming,          *)
(* whitespace collapsing, joining and pattern search are computed as the   *)
(* code computes them.  A document is a record: attrs is the set of        *)
(* attribute names hasattr() answers True for, the other fields are the    *)
(* contents the code reads through those attributes.                       *)
(***************************************************************************)
EXTENDS Integers, Sequences, FiniteSets, TLC

VARIABLES
    loader,     \* what self.loader.load_file(filepath) does: raise or return a document
    env,        \* the environment of the call: which backends import, and the
                \* secondary backend's view of the source file
    op,         \* the operation called last ("none" before the first call)
    outcome,    \* what that call did: returned a record list, or raised
    prev,       \* the call before it and the outcome it gave, as the caller holds it
    handles,    \* the document handle and the secondary backend's handle on the
                \* source file after the last call: "none", "open" or "closed"
    process     \* the last run of process_file: its arguments and the calls it made

vars == <<loader, env, op, outcome, prev, handles, process>>

(***************************************************************************)
(* Bounds of the model.                                                    *)
(***************************************************************************)
MaxPages == 2
MaxParas == 3
MaxSlides == 2
MaxRows == 2
MaxCells == 2
MaxLen == 5
MaxPieces == 2

(***************************************************************************)
(* Sequences.                                                              *)
(***************************************************************************)
SeqsUpTo(S, n) == UNION {[1..k -> S] : k \in 0..n}

RECURSIVE Concat(_)
Concat(ss) == IF ss = <<>> THEN <<>> ELSE Head(ss) \o Concat(Tail(ss))

Map(f(_), s) == [k \in 1..Len(s) |-> f(s[k])]

RECURSIVE Filter(_, _)
Filter(keep(_), s) ==
    IF s = <<>> THEN <<>>
    ELSE IF keep(Head(s)) THEN <<Head(s)>> \o Filter(keep, Tail(s))
    ELSE Filter(keep, Tail(s))

\* the 1-based position of the first element of s satisfying bad, Len(s)+1 if none
RECURSIVE FirstIndex(_, _)
FirstIndex(bad(_), s) ==
    IF s = <<>> THEN 1
    ELSE IF bad(Head(s)) THEN 1 ELSE 1 + FirstIndex(bad, Tail(s))

Prefix(s, n) == SubSeq(s, 1, n)

(***************************************************************************)
(* Text: str.strip, re.sub(r"\s+", " ", t), str.join, str.splitlines,      *)
(* the "in" substring test.                                                *)
(***************************************************************************)
IsSpace(c) == c \in {" ", "\n"}

RECURSIVE lstrip(_)
lstrip(s) == IF s # <<>> /\ IsSpace(Head(s)) THEN lstrip(Tail(s)) ELSE s

RECURSIVE rstrip(_)
rstrip(s) ==
    IF s # <<>> /\ IsSpace(s[Len(s)]) THEN rstrip(SubSeq(s, 1, Len(s) - 1)) ELSE s

strip(s) == rstrip(lstrip(s))

\* re.sub(r"\s+", " ", s): every maximal run of whitespace becomes one space
RECURSIVE collapse_spaces(_)
collapse_spaces(s) ==
    IF s = <<>> THEN <<>>
    ELSE IF IsSpace(Head(s)) THEN <<" ">> \o collapse_spaces(lstrip(s))
    ELSE <<Head(s)>> \o collapse_spaces(Tail(s))

RECURSIVE join(_, _)
join(sep, parts) ==
    IF parts = <<>> THEN <<>>
    ELSE IF Len(parts) = 1 THEN parts[1]
    ELSE parts[1] \o sep \o join(sep, Tail(parts))

\* str.splitlines(): the lines between newlines, no empty last line
RECURSIVE splitlines(_)
splitlines(s) ==
    IF s = <<>> THEN <<>>
    ELSE LET n == FirstIndex(LAMBDA c : c = "\n", s)
         IN  <<Prefix(s, n - 1)>> \o splitlines(SubSeq(s, n + 1, Len(s)))

\* str.endswith
endswith(s, suffix) ==
    Len(suffix) <= Len(s) /\ SubSeq(s, Len(s) - Len(suffix) + 1, Len(s)) = suffix

UpperCase == <<"A", "B", "C", "D", "E", "F", "G", "H", "I", "J", "K", "L", "M",
               "N", "O", "P", "Q", "R", "S", "T", "U", "V", "W", "X", "Y", "Z">>

LowerCase == <<"a", "b", "c", "d", "e", "f", "g", "h", "i", "j", "k", "l", "m",
               "n", "o", "p", "q", "r", "s", "t", "u", "v", "w", "x", "y", "z">>

\* str.lower
lower(s) ==
    [k \in 1..Len(s) |->
        IF \E i \in 1..26 : UpperCase[i] = s[k]
        THEN LowerCase[CHOOSE i \in 1..26 : UpperCase[i] = s[k]]
        ELSE s[k]]

StartsWith(s, p) == Len(p) <= Len(s) /\ Prefix(s, Len(p)) = p

\* needle in haystack
Contains(haystack, needle) ==
    \E k \in 0..(Len(haystack) - Len(needle)) :
        SubSeq(haystack, k + 1, k + Len(needle)) = needle

(***************************************************************************)
(* merge_lines: the text reflow heuristic.                                 *)
(***************************************************************************)
TerminalPunctuation == {".", "!", "?", ":", "\"", "'"}

\* re.search(r'[.!?:"\']\s*$', buffer)
EndsSentence(buffer) ==
    LET b == rstrip(buffer) IN b # <<>> /\ b[Len(b)] \in TerminalPunctuation

\* merge_loop closing the buffer when the incoming line ends a sentence
RECURSIVE merge_loop_testing_line(_, _, _)
merge_loop_testing_line(lines, merged, buffer) ==
    IF lines = <<>>
    THEN IF buffer # <<>> THEN Append(merged, buffer) ELSE merged
    ELSE IF buffer = <<>> THEN merge_loop_testing_line(Tail(lines), merged, Head(lines))
    ELSE IF EndsSentence(Head(lines))
         THEN merge_loop_testing_line(Tail(lines), Append(merged, buffer), Head(lines))
         ELSE merge_loop_testing_line(Tail(lines), merged, buffer \o <<" ">> \o Head(lines))

RECURSIVE merge_loop(_, _, _)
merge_loop(lines, merged, buffer) ==
    IF lines = <<>>
    THEN IF buffer # <<>> THEN Append(merged, buffer) ELSE merged
    ELSE IF buffer = <<>> THEN merge_loop(Tail(lines), merged, Head(lines))
    ELSE IF EndsSentence(buffer)
         THEN merge_loop(Tail(lines), Append(merged, buffer), Head(lines))
         ELSE merge_loop(Tail(lines), merged, buffer \o <<" ">> \o Head(lines))

\* merge_lines without the strip of each line
merge_lines_keeping_indentation(raw_text) ==
    LET lines == Filter(LAMBDA l : strip(l) # <<>>, splitlines(raw_text))
    IN  join(<<"\n", "\n">>, merge_loop(lines, <<>>, <<>>))

merge_lines(raw_text) ==
    LET lines == Filter(LAMBDA l : l # <<>>, Map(strip, splitlines(raw_text)))
    IN  join(<<"\n", "\n">>, merge_loop(lines, <<>>, <<>>))

(***************************************************************************)
(* infer_font_style.                                                       *)
(***************************************************************************)
\* infer_font_style reading only "Italic" as italic
infer_font_style_without_oblique(font_name) ==
    IF font_name = <<>> THEN [bold |-> FALSE, italic |-> FALSE]
    ELSE [bold   |-> Contains(font_name, <<"B", "o", "l", "d">>),
          italic |-> Contains(font_name, <<"I", "t", "a", "l", "i", "c">>)]

infer_font_style(font_name) ==
    IF font_name = <<>> THEN [bold |-> FALSE, italic |-> FALSE]
    ELSE [bold   |-> Contains(font_name, <<"B", "o", "l", "d">>),
          italic |-> \/ Contains(font_name, <<"I", "t", "a", "l", "i", "c">>)
                     \/ Contains(font_name, <<"O", "b", "l", "i", "q", "u", "e">>)]

(***************************************************************************)
(* Outcomes of a call.  variant records which branch of the operation's    *)
(* if/elif chain ran ("none" when the loader raised before any branch).    *)
(***************************************************************************)
Returned(variant, records) ==
    [status |-> "returned", variant |-> variant, value |-> records, error |-> "none"]

Raised(variant, error) ==
    [status |-> "raised", variant |-> variant, value |-> <<>>, error |-> error]

NoCall == [status |-> "none", variant |-> "none", value |-> <<>>, error |-> "none"]

\* an exception raised by an attribute access or a backend call on one item
ItemError == "Exception"

hasattr(document, name) == name \in document.attrs

\* try: import fitz; is_mupdf = hasattr(document, "page_count")
\* except ImportError: is_mupdf = False
is_mupdf(e, document) == e.fitz /\ hasattr(document, "page_count")

(***************************************************************************)
(* extract_text, page-stream branch (primary backend).                     *)
(***************************************************************************)
span_meta(span) ==
    LET style == infer_font_style(span.font)
    IN  [text |-> span.text, font |-> span.font, size |-> span.size,
         bold |-> style.bold, italic |-> style.italic]

line_text_of(line) ==
    strip(collapse_spaces(join(<<" ">>, Map(LAMBDA span : strip(span.text), line.spans))))

\* line_records with the 0-based page number
line_records_zero_based(page, line) ==
    IF line_text_of(line) = <<>> THEN <<>>
    ELSE << [page       |-> page.number,
             rotation   |-> page.rotation,
             line_text  |-> line_text_of(line),
             spans      |-> Map(span_meta, line.spans)] >>

line_records(page, line) ==
    IF line_text_of(line) = <<>> THEN <<>>
    ELSE << [page       |-> page.number + 1,
             rotation   |-> page.rotation,
             line_text  |-> line_text_of(line),
             spans      |-> Map(span_meta, line.spans)] >>

block_records(page, block) ==
    IF block.type = 0
    THEN Concat(Map(LAMBDA line : line_records(page, line), block.lines))
    ELSE <<>>

page_text_records(page) ==
    Concat(Map(LAMBDA block : block_records(page, block), page.blocks))

\* document[i] for i in range(document.page_count)
document_pages(document) == [i \in 1..document.page_count |-> document.fitz_pages[i]]

text_page_stream(document) ==
    IF \E i \in 1..document.page_count : document.fitz_pages[i].get_text_raises
    THEN Raised("page_stream", ItemError)
    ELSE Returned("page_stream",
                  <<[document_metadata |-> document.metadata]>>
                  \o Concat(Map(page_text_records, document_pages(document))))

(***************************************************************************)
(* extract_text, alternate page-stream branch.                             *)
(***************************************************************************)
ErrorText == <<"Error extracting text: ">>

\* page.extract_text(layout=True), then re.sub(...).strip() if text else ""
layout_text_of(plumber_page) ==
    IF plumber_page.layout_text # <<>>
    THEN strip(collapse_spaces(plumber_page.layout_text)) ELSE <<>>

\* raw_text_of leaving the text empty when the extraction raises
raw_text_of_dropping_error(page) ==
    IF page.has_extract_text /\ page.extract_raises THEN <<>>
    ELSE merge_lines(IF page.has_extract_text THEN page.raw_text ELSE <<>>)

\* the inner try/except of the raw tier, for one page of document.pages
raw_text_of(page) ==
    IF page.has_extract_text /\ page.extract_raises THEN ErrorText
    ELSE merge_lines(IF page.has_extract_text THEN page.raw_text ELSE <<>>)

raw_text_records(document) ==
    [i \in 1..Len(document.pages) |-> [page |-> i, text |-> raw_text_of(document.pages[i])]]

\* the records appended inside "with pdfplumber.open(filepath) as pdf" before
\* the first exception (all pages when nothing raises)
layout_text_records(pdf) ==
    LET n == FirstIndex(LAMBDA p : p.layout_raises, pdf.pages) - 1
    IN  [i \in 1..n |-> [page |-> i, text |-> layout_text_of(pdf.pages[i])]]

layout_fails(pdf) == pdf.open_raises \/ \E i \in 1..Len(pdf.pages) : pdf.pages[i].layout_raises

text_alt_page_stream(e, document) ==
    IF e.pdfplumber
    THEN IF layout_fails(e.pdf)
         THEN Returned("alt_page_stream",
                       (IF e.pdf.open_raises THEN <<>> ELSE layout_text_records(e.pdf))
                       \o raw_text_records(document))
         ELSE Returned("alt_page_stream", layout_text_records(e.pdf))
    ELSE Returned("alt_page_stream", raw_text_records(document))

(***************************************************************************)
(* extract_text, flow branch.  A run's font is [truthy, attrs, name, size, *)
(* color, highlight_color]; None is the string "None", a size is           *)
(* [set, pt], falsy when unset or zero.                                    *)
(***************************************************************************)
None == "None"

size_truthy(size) == size.set /\ size.pt # 0

flow_run_data(run) ==
    [text      |-> run.text,
     font      |-> IF run.font.truthy /\ "name" \in run.font.attrs
                   THEN run.font.name ELSE "DefaultFont",
     size      |-> IF run.font.truthy /\ size_truthy(run.font.size)
                   THEN run.font.size.pt ELSE 11,
     bold      |-> IF run.bold # None THEN run.bold ELSE "False",
     italic    |-> IF run.italic # None THEN run.italic ELSE "False",
     underline |-> IF run.underline # None THEN run.underline ELSE "False",
     color     |-> IF run.font.truthy /\ run.font.color.truthy
                      /\ "rgb" \in run.font.color.attrs
                   THEN run.font.color.rgb ELSE "000000",
     highlight |-> IF run.font.truthy /\ "highlight_color" \in run.font.attrs
                   THEN run.font.highlight_color ELSE None]

flow_para_data(para) ==
    [text      |-> IF para.text # <<>> THEN strip(para.text) ELSE <<>>,
     style     |-> IF "style" \in para.attrs THEN para.style ELSE None,
     alignment |-> IF "alignment" \in para.attrs THEN para.alignment ELSE None,
     runs      |-> IF "runs" \in para.attrs THEN Map(flow_run_data, para.runs) ELSE <<>>]

\* text_flow skipping the paragraphs without text
text_flow_skipping_empty(document) ==
    Returned("flow", Map(flow_para_data,
                         Filter(LAMBDA para : strip(para.text) # <<>>, document.paragraphs)))

text_flow(document) == Returned("flow", Map(flow_para_data, document.paragraphs))

(***************************************************************************)
(* extract_text, slide-deck branch.                                        *)
(***************************************************************************)
slide_run_data(run) ==
    [text      |-> run.text,
     font      |-> IF run.font.truthy /\ run.font.name # None
                   THEN run.font.name ELSE "DefaultFont",
     size      |-> IF run.font.truthy /\ size_truthy(run.font.size)
                   THEN run.font.size.pt ELSE -1,
     bold      |-> IF run.font.truthy /\ run.font.bold # None
                   THEN run.font.bold ELSE "False",
     italic    |-> IF run.font.truthy /\ run.font.italic # None
                   THEN run.font.italic ELSE "False",
     underline |-> IF run.font.truthy /\ run.font.underline # None
                   THEN run.font.underline ELSE "False",
     color     |-> IF run.font.truthy /\ run.font.color.truthy
                      /\ "rgb" \in run.font.color.attrs
                   THEN run.font.color.rgb ELSE None]

\* the paragraphs list: one record per paragraph whose trimmed text is not empty
slide_paragraphs(text_frame) ==
    Map(LAMBDA para : [text      |-> strip(para.text),
                       alignment |-> para.alignment,
                       runs      |-> Map(slide_run_data, para.runs)],
        Filter(LAMBDA para : strip(para.text) # <<>>, text_frame.paragraphs))

\* unique_paras: the first paragraph of each text, in order
\* unique_paras without the seen_texts test
unique_paras_keeping_all(paragraphs, seen_texts) == paragraphs

RECURSIVE unique_paras(_, _)
unique_paras(paragraphs, seen_texts) ==
    IF paragraphs = <<>> THEN <<>>
    ELSE IF Head(paragraphs).text \notin seen_texts
         THEN <<Head(paragraphs)>>
              \o unique_paras(Tail(paragraphs), seen_texts \cup {Head(paragraphs).text})
         ELSE unique_paras(Tail(paragraphs), seen_texts)

shape_geometry(shape) ==
    [shape_id |-> IF "shape_id" \in shape.attrs THEN shape.shape_id ELSE -1]

\* shape_data: has_text says whether the "text" key was set
shape_text_data(shape) ==
    IF "text_frame" \in shape.attrs /\ ~shape.text_frame.is_none
    THEN LET unique == unique_paras(slide_paragraphs(shape.text_frame), {})
         IN  [geometry   |-> shape_geometry(shape),
              has_text   |-> TRUE,
              paragraphs |-> unique,
              text       |-> strip(join(<<" ">>, Map(LAMBDA p : p.text, unique)))]
    ELSE IF "text" \in shape.attrs /\ shape.text # <<>>
         THEN [geometry |-> shape_geometry(shape), has_text |-> TRUE,
               paragraphs |-> <<>>, text |-> strip(shape.text)]
         ELSE [geometry |-> shape_geometry(shape), has_text |-> FALSE,
               paragraphs |-> <<>>, text |-> <<>>]

\* slide_items without the test on shape_data["text"]
slide_items_unfiltered(slide) == Map(shape_text_data, slide.shapes)

slide_items(slide) ==
    Filter(LAMBDA shape_data : shape_data.has_text /\ shape_data.text # <<>>,
           Map(shape_text_data, slide.shapes))

RECURSIVE slide_text_records(_, _)
slide_text_records(slides, i) ==
    IF i > Len(slides) THEN <<>>
    ELSE (IF slide_items(slides[i]) # <<>>
          THEN <<[slide |-> i, shapes |-> slide_items(slides[i])]>>
          ELSE <<>>)
         \o slide_text_records(slides, i + 1)

text_slide_deck(document) == Returned("slide_deck", slide_text_records(document.slides, 1))

(***************************************************************************)
(* extract_text.                                                           *)
(***************************************************************************)
text_strategy(e, document) ==
    IF is_mupdf(e, document) THEN "page_stream"
    ELSE IF hasattr(document, "pages") THEN "alt_page_stream"
    ELSE IF hasattr(document, "paragraphs") THEN "flow"
    ELSE IF hasattr(document, "slides") THEN "slide_deck"
    ELSE "unsupported"

\* FileLoader.load_file of the three loaders: the extension check, the
\* existence check, then the backend's open (which raises on a corrupted file)
load_file(ld) ==
    IF ~ld.valid THEN [error |-> "ValueError", document |-> ld.document]
    ELSE IF ~ld.exists THEN [error |-> "FileNotFoundError", document |-> ld.document]
    ELSE IF ~ld.opens THEN [error |-> "IOError", document |-> ld.document]
    ELSE [error |-> "none", document |-> ld.document]

text_dispatch(e, document) ==
    LET strategy == text_strategy(e, document)
    IN  CASE strategy = "page_stream" -> text_page_stream(document)
        [] strategy = "alt_page_stream" -> text_alt_page_stream(e, document)
        [] strategy = "flow" -> text_flow(document)
        [] strategy = "slide_deck" -> text_slide_deck(document)
        [] OTHER -> Raised("unsupported", "ValueError")

\* extract_text with the loader call wrapped in a try block that returns nothing
extract_text_catching(ld, e) ==
    IF load_file(ld).error # "none" THEN Returned("none", <<>>)
    ELSE text_dispatch(e, load_file(ld).document)

\* the loader call is the first statement, outside any try block
extract_text(ld, e) ==
    IF load_file(ld).error # "none" THEN Raised("none", load_file(ld).error)
    ELSE text_dispatch(e, load_file(ld).document)

(***************************************************************************)
(* extract_tables.                                                         *)
(***************************************************************************)
\* [cell.text.strip() for cell in row.cells] for every row
\* table_grid without the empty rows
table_grid_skipping_empty_rows(table) ==
    Filter(LAMBDA row_data : row_data # <<>>,
           Map(LAMBDA row : Map(LAMBDA cell : strip(cell.text), row.cells), table.rows))

table_grid(table) ==
    Map(LAMBDA row : Map(LAMBDA cell : strip(cell.text), row.cells), table.rows)

\* len(table_data[0]) if table_data and table_data[0] else 0
\* columns_of reading the last row
columns_of_last_row(table_data) ==
    IF table_data # <<>> /\ table_data[Len(table_data)] # <<>>
    THEN Len(table_data[Len(table_data)]) ELSE 0

columns_of(table_data) ==
    IF table_data # <<>> /\ table_data[1] # <<>> THEN Len(table_data[1]) ELSE 0

\* building the grid raises when a row's cells cannot be read
grid_raises(table) == \E r \in 1..Len(table.rows) : table.rows[r].cells_raise

flow_table_record(i, table) ==
    [table_index |-> i,
     style       |-> IF table.style # None THEN table.style ELSE "DefaultTableStyle",
     data        |-> table_grid(table),
     rows        |-> Len(table_grid(table)),
     columns     |-> columns_of(table_grid(table))]

tables_flow(document) ==
    IF \E i \in 1..Len(document.tables) : grid_raises(document.tables[i])
    THEN Raised("flow", ItemError)
    ELSE Returned("flow", [i \in 1..Len(document.tables) |->
                              flow_table_record(i, document.tables[i])])

\* every (slide index, shape) of the deck in traversal order
deck_shapes(slides) ==
    Concat([i \in 1..Len(slides) |->
               [k \in 1..Len(slides[i].shapes) |-> [slide |-> i, shape |-> slides[i].shapes[k]]]])

\* the body of the try block for one shape: <<>> when it is skipped
slide_table_record(item, table_counter) ==
    IF "has_table" \notin item.shape.attrs THEN <<>>
    ELSE IF ~item.shape.has_table THEN <<>>
    ELSE IF grid_raises(item.shape.table) THEN <<>>
    ELSE IF table_grid(item.shape.table) = <<>> THEN <<>>
    ELSE << [table_index |-> table_counter,
             style       |-> "DefaultPPTTable",
             slide       |-> item.slide,
             data        |-> table_grid(item.shape.table),
             rows        |-> Len(table_grid(item.shape.table)),
             columns     |-> columns_of(table_grid(item.shape.table))] >>

\* slide_table_records advancing the counter for every shape, skipped or not
slide_table_records_counting_skipped(items, table_counter) ==
    Concat([k \in 1..Len(items) |-> slide_table_record(items[k], table_counter + k - 1)])

RECURSIVE slide_table_records(_, _)
slide_table_records(items, table_counter) ==
    IF items = <<>> THEN <<>>
    ELSE LET found == slide_table_record(Head(items), table_counter)
         IN  found \o slide_table_records(Tail(items), table_counter + Len(found))

tables_slide_deck(document) ==
    Returned("slide_deck", slide_table_records(deck_shapes(document.slides), 1))

plumber_table_record(i, table_data) ==
    [page    |-> i,
     style   |-> "N/A",
     data    |-> table_data,
     rows    |-> Len(table_data),
     columns |-> columns_of(table_data)]

\* the records appended for pages 1..n of the secondary backend
RECURSIVE plumber_table_records(_, _)
plumber_table_records(pages, n) ==
    IF n = 0 THEN <<>>
    ELSE plumber_table_records(pages, n - 1)
         \o (IF pages[n].table # <<>>
             THEN <<plumber_table_record(n, pages[n].table)>> ELSE <<>>)

table_warning(message) == [warning |-> message]

tables_page_stream(e) ==
    IF ~e.pdfplumber
    THEN Returned("page_stream", <<table_warning("pdfplumber not installed")>>)
    ELSE IF e.pdf.open_raises
    THEN Returned("page_stream", <<table_warning("Error extracting tables")>>)
    ELSE LET n == FirstIndex(LAMBDA p : p.table_raises, e.pdf.pages) - 1
             found == plumber_table_records(e.pdf.pages, n)
         IN  IF n < Len(e.pdf.pages)
             THEN Returned("page_stream",
                           Append(found, table_warning("Error extracting tables")))
             ELSE IF found = <<>>
             THEN Returned("page_stream", <<table_warning("No tables found")>>)
             ELSE Returned("page_stream", found)

\* tables_strategy with the final else branch lost
tables_strategy_without_else(document) ==
    IF hasattr(document, "tables") THEN "flow"
    ELSE IF hasattr(document, "slides") THEN "slide_deck"
    ELSE "page_stream"

tables_strategy(document) ==
    IF hasattr(document, "tables") THEN "flow"
    ELSE IF hasattr(document, "slides") THEN "slide_deck"
    ELSE IF hasattr(document, "page_count") THEN "page_stream"
    ELSE "unsupported"

tables_dispatch(e, document) ==
    LET strategy == tables_strategy(document)
    IN  CASE strategy = "flow" -> tables_flow(document)
        [] strategy = "slide_deck" -> tables_slide_deck(document)
        [] strategy = "page_stream" -> tables_page_stream(e)
        [] OTHER -> Raised("unsupported", "ValueError")

\* the loader call is the first statement, outside any try block
extract_tables(ld, e) ==
    IF load_file(ld).error # "none" THEN Raised("none", load_file(ld).error)
    ELSE tables_dispatch(e, load_file(ld).document)

(***************************************************************************)
(* extract_links.                                                          *)
(***************************************************************************)
\* every (page index, link) of the document in traversal order; i is 0-based
page_links(document) ==
    Concat([i \in 1..document.page_count |->
               Map(LAMBDA link : [i |-> i - 1, link |-> link], document.fitz_pages[i].links)])

RECURSIVE pdf_link_records(_, _)
pdf_link_records(items, seen_pdf_links) ==
    IF items = <<>> THEN <<>>
    ELSE LET i == Head(items).i
             link == Head(items).link
             key == <<i, link.uri>>
         IN  IF link.uri # "" /\ key \notin seen_pdf_links
             THEN <<[page |-> i + 1, uri |-> link.uri, rect |-> link.from, kind |-> link.kind]>>
                  \o pdf_link_records(Tail(items), seen_pdf_links \cup {key})
             ELSE pdf_link_records(Tail(items), seen_pdf_links)

links_page_stream(document) ==
    IF \E i \in 1..document.page_count : document.fitz_pages[i].get_links_raises
    THEN Raised("page_stream", ItemError)
    ELSE Returned("page_stream", pdf_link_records(page_links(document), {}))

\* re.findall(r"https?://\S+", text)
URLSchemes == {<<"h", "t", "t", "p", ":", "/", "/">>, <<"h", "t", "t", "p", "s", ":", "/", "/">>}

RECURSIVE find_urls(_)
find_urls(text) ==
    IF text = <<>> THEN <<>>
    ELSE LET schemes == {p \in URLSchemes : StartsWith(text, p)}
             scheme == IF schemes = {} THEN 0 ELSE Len(CHOOSE p \in schemes : TRUE)
             rest == SubSeq(text, scheme + 1, Len(text))
             n == FirstIndex(IsSpace, rest) - 1
         IN  IF scheme > 0 /\ n > 0
             THEN <<Prefix(text, scheme + n)>>
                  \o find_urls(SubSeq(text, scheme + n + 1, Len(text)))
             ELSE find_urls(Tail(text))

url_records(i, text) ==
    Map(LAMBDA url : [page |-> i, uri |-> url, contents |-> <<>>], find_urls(text))

\* the layout-aware loop: the records of the pages before the first exception
layout_link_records(pdf) ==
    LET n == FirstIndex(LAMBDA p : p.layout_raises, pdf.pages) - 1
    IN  Concat([i \in 1..n |-> url_records(i, pdf.pages[i].layout_text)])

\* the raw loop: a page whose extraction raises contributes nothing
raw_link_records(document) ==
    Concat([i \in 1..Len(document.pages) |->
               IF document.pages[i].has_extract_text /\ document.pages[i].extract_raises
               THEN <<>>
               ELSE url_records(i, merge_lines(IF document.pages[i].has_extract_text
                                               THEN document.pages[i].raw_text ELSE <<>>))])

links_alt_page_stream(e, document) ==
    IF e.pdfplumber
    THEN Returned("alt_page_stream",
                  IF e.pdf.open_raises THEN <<>> ELSE layout_link_records(e.pdf))
    ELSE Returned("alt_page_stream", raw_link_records(document))

links_flow(document) ==
    Returned("flow",
             Map(LAMBDA para : [text |-> strip(para.text), url |-> strip(para.text)],
                 Filter(LAMBDA para : Contains(para.text, <<"h", "t", "t", "p">>),
                        document.paragraphs)))

\* the body of the try block for one shape, given the pairs seen so far
slide_link_record(item, seen_links) ==
    LET shape == item.shape
        url == strip(shape.click_action.hyperlink)
        text == IF "text" \in shape.attrs /\ shape.text # <<>> THEN strip(shape.text) ELSE <<>>
    IN  IF "click_action" \in shape.attrs /\ ~shape.click_action.raises
           /\ shape.click_action.truthy /\ shape.click_action.hyperlink # <<>>
           /\ url # <<>> /\ <<url, text>> \notin seen_links
        THEN <<[slide |-> item.slide, text |-> text, url |-> url]>>
        ELSE <<>>

RECURSIVE slide_link_records(_, _)
slide_link_records(items, seen_links) ==
    IF items = <<>> THEN <<>>
    ELSE LET found == slide_link_record(Head(items), seen_links)
         IN  found \o slide_link_records(Tail(items),
                         seen_links \cup {<<found[k].url, found[k].text>> : k \in 1..Len(found)})

links_slide_deck(document) ==
    Returned("slide_deck", slide_link_records(deck_shapes(document.slides), {}))

links_strategy(e, document) ==
    IF is_mupdf(e, document) THEN "page_stream"
    ELSE IF hasattr(document, "pages") THEN "alt_page_stream"
    ELSE IF hasattr(document, "paragraphs") THEN "flow"
    ELSE IF hasattr(document, "slides") THEN "slide_deck"
    ELSE "unsupported"

links_dispatch(e, document) ==
    LET strategy == links_strategy(e, document)
    IN  CASE strategy = "page_stream" -> links_page_stream(document)
        [] strategy = "alt_page_stream" -> links_alt_page_stream(e, document)
        [] strategy = "flow" -> links_flow(document)
        [] strategy = "slide_deck" -> links_slide_deck(document)
        [] OTHER -> Raised("unsupported", "ValueError")

\* the loader call is the first statement, outside any try block
extract_links(ld, e) ==
    IF load_file(ld).error # "none" THEN Raised("none", load_file(ld).error)
    ELSE links_dispatch(e, load_file(ld).document)

(***************************************************************************)
(* extract_images.  Bytes are sequences of byte tokens; a missing number   *)
(* (None) is -1.                                                           *)
(***************************************************************************)
\* base64.b64encode(blob).decode("utf-8")
b64encode(blob) == IF blob = <<>> THEN <<>> ELSE <<"base64">> \o blob

\* page_image_record numbering the pages from zero
page_image_record_zero_based(i, img) ==
    [page   |-> i - 1,
     xref   |-> img.xref,
     format |-> img.ext,
     width  |-> img.width,
     height |-> img.height,
     blob   |-> IF img.image # <<>> THEN b64encode(img.image) ELSE <<>>]

page_image_record(i, img) ==
    [page   |-> i,
     xref   |-> img.xref,
     format |-> img.ext,
     width  |-> img.width,
     height |-> img.height,
     blob   |-> IF img.image # <<>> THEN b64encode(img.image) ELSE <<>>]

images_page_stream(document) ==
    IF \E i \in 1..document.page_count :
          \E k \in 1..Len(document.fitz_pages[i].images) :
              document.fitz_pages[i].images[k].extract_raises
    THEN Raised("page_stream", ItemError)
    ELSE Returned("page_stream",
                  Concat([i \in 1..document.page_count |->
                             Map(LAMBDA img : page_image_record(i, img),
                                 document.fitz_pages[i].images)]))

\* the alternate branch opens the file with the secondary backend and reads nothing
images_alt_page_stream(e, document) == Returned("alt_page_stream", <<>>)

inline_image_records(document) ==
    Concat([i \in 1..Len(document.inline_shapes) |->
               LET shape == document.inline_shapes[i]
               IN  IF shape.raises THEN <<>>
                   ELSE <<[index    |-> i,
                           filename |-> shape.name,
                           blob     |-> b64encode(shape.blob),
                           width    |-> shape.width,
                           height   |-> shape.height]>>])

floating_image_records(document) ==
    IF ~hasattr(document, "element") \/ document.element.xpath_raises THEN <<>>
    ELSE Concat([i \in 1..Len(document.element.drawings) |->
                    LET drawing == document.element.drawings[i]
                    IN  IF drawing.raises THEN <<>>
                        ELSE <<[floating_index |-> i,
                                rId            |-> drawing.rId,
                                blob           |-> b64encode(drawing.blob)]>>])

images_flow(document) ==
    Returned("flow", inline_image_records(document) \o floating_image_records(document))

\* the record of a picture shape or a picture fill
decoded_image_record(shape, slide_index, image) ==
    [slide    |-> slide_index,
     image_id |-> shape.shape_id,
     blob     |-> b64encode(image.blob),
     format   |-> image.ext,
     width    |-> image.width,
     height   |-> image.height]

\* the if/elif at the top of _extract_ppt_images_from_shape
picture_records(shape, slide_index) ==
    IF "shape_type" \in shape.attrs /\ shape.shape_type = "PICTURE"
    THEN IF shape.image.raises THEN <<>>
         ELSE <<decoded_image_record(shape, slide_index, shape.image)>>
    ELSE IF "fill" \in shape.attrs /\ shape.fill.type = "PICTURE"
    THEN IF shape.fill.picture.raises THEN <<>>
         ELSE <<decoded_image_record(shape, slide_index, shape.fill.picture)>>
    ELSE <<>>

\* markup_records taking the first related part without looking the id up
markup_records_without_lookup(shape, slide_index) ==
    IF shape.element.xpath_raises \/ shape.element.blips = <<>>
          \/ DOMAIN shape.part.related_parts = {}
    THEN <<>>
    ELSE LET part == shape.part.related_parts[CHOOSE rId \in DOMAIN shape.part.related_parts : TRUE]
         IN  IF part.raises THEN <<>>
             ELSE <<[slide    |-> slide_index,
                     image_id |-> IF "shape_id" \in shape.attrs THEN shape.shape_id ELSE -1,
                     blob     |-> b64encode(part.blob),
                     format   |-> IF part.has_ext THEN part.ext ELSE "unknown",
                     width    |-> -1,
                     height   |-> -1]>>

\* the try block of the else branch: the raw-markup fallback
markup_records(shape, slide_index) ==
    IF shape.element.xpath_raises THEN <<>>
    ELSE IF shape.element.blips = <<>> THEN <<>>
    ELSE LET rId == shape.element.blips[1].embed
         IN  IF rId # None /\ shape.part.has_related_parts
                /\ rId \in DOMAIN shape.part.related_parts
             THEN IF shape.part.related_parts[rId].raises THEN <<>>
                  ELSE <<[slide    |-> slide_index,
                          image_id |-> IF "shape_id" \in shape.attrs
                                       THEN shape.shape_id ELSE -1,
                          blob     |-> b64encode(shape.part.related_parts[rId].blob),
                          format   |-> IF shape.part.related_parts[rId].has_ext
                                       THEN shape.part.related_parts[rId].ext
                                       ELSE "unknown",
                          width    |-> -1,
                          height   |-> -1]>>
             ELSE <<>>

RECURSIVE extract_ppt_images_from_shape(_, _)
extract_ppt_images_from_shape(shape, slide_index) ==
    picture_records(shape, slide_index)
    \o (IF "shapes" \in shape.attrs
        THEN Concat(Map(LAMBDA subshape : extract_ppt_images_from_shape(subshape, slide_index),
                        shape.shapes))
        ELSE markup_records(shape, slide_index))

\* extract_images_from_rels: the relationship-table scan
rel_image_records(idx, slide) ==
    Concat(Map(LAMBDA rel : IF Contains(rel.reltype, <<"image">>) /\ ~rel.raises
                            THEN <<[slide  |-> idx,
                                    rId    |-> rel.rId,
                                    format |-> IF rel.target_part.has_ext
                                               THEN rel.target_part.ext ELSE "unknown",
                                    blob   |-> b64encode(rel.target_part.blob)]>>
                            ELSE <<>>,
               slide.rels))

extract_images_from_rels(document) ==
    Concat([idx \in 1..Len(document.slides) |-> rel_image_records(idx, document.slides[idx])])

shape_walk_records(document) ==
    Concat(Map(LAMBDA item : extract_ppt_images_from_shape(item.shape, item.slide),
               deck_shapes(document.slides)))

\* images_slide_deck with the relationship scan tried slide by slide
images_slide_deck_scanning_per_slide(document) ==
    Returned("slide_deck",
             Concat([i \in 1..Len(document.slides) |->
                        LET walk == Concat(Map(LAMBDA shape :
                                                  extract_ppt_images_from_shape(shape, i),
                                               document.slides[i].shapes))
                        IN  IF walk # <<>> THEN walk
                            ELSE rel_image_records(i, document.slides[i])]))

images_slide_deck(document) ==
    Returned("slide_deck",
             IF shape_walk_records(document) # <<>> THEN shape_walk_records(document)
             ELSE extract_images_from_rels(document))

images_strategy(e, document) ==
    IF is_mupdf(e, document) THEN "page_stream"
    ELSE IF hasattr(document, "pages") THEN "alt_page_stream"
    ELSE IF hasattr(document, "inline_shapes") THEN "flow"
    ELSE IF hasattr(document, "slides") THEN "slide_deck"
    ELSE "unsupported"

images_dispatch(e, document) ==
    LET strategy == images_strategy(e, document)
    IN  CASE strategy = "page_stream" -> images_page_stream(document)
        [] strategy = "alt_page_stream" -> images_alt_page_stream(e, document)
        [] strategy = "flow" -> images_flow(document)
        [] strategy = "slide_deck" -> images_slide_deck(document)
        [] OTHER -> Raised("unsupported", "ValueError")

\* the loader call is the first statement, outside any try block
extract_images(ld, e) ==
    IF load_file(ld).error # "none" THEN Raised("none", load_file(ld).error)
    ELSE images_dispatch(e, load_file(ld).document)

(***************************************************************************)
(* The four operations as actions: one call of the operation on the        *)
(* document the loader returns.                                            *)
(***************************************************************************)
NoPrev == [op |-> "none", outcome |-> NoCall]

NoHandles == [document |-> "none", pdf |-> "none"]

NoProcess == [filepath |-> <<>>, storage_method |-> "none", calls |-> <<>>]

\* whether the branch the call takes runs "with pdfplumber.open(filepath) as pdf"
opens_pdf(name, e, document) ==
    e.pdfplumber
       /\ CASE name = "extract_text" -> text_strategy(e, document) = "alt_page_stream"
            [] name = "extract_links" -> links_strategy(e, document) = "alt_page_stream"
            [] name = "extract_images" -> images_strategy(e, document) = "alt_page_stream"
            [] name = "extract_tables" -> tables_strategy(document) = "page_stream"

\* The document load_file returns is open and no operation closes it; the
\* secondary backend's handle is closed by the with statement on every exit.
handles_after(name, ld, e) ==
    [document |-> IF load_file(ld).error = "none" THEN "open" ELSE "none",
     pdf      |-> IF load_file(ld).error = "none"
                     /\ opens_pdf(name, e, load_file(ld).document) /\ ~e.pdf.open_raises
                  THEN "closed" ELSE "none"]

\* Call with the record list kept from one call to the next
CallSharingRecords(name, result) ==
    /\ op' = name
    /\ outcome' = [result EXCEPT !.value = outcome.value \o result.value]
    /\ prev' = [op |-> op, outcome |-> outcome]
    /\ handles' = handles_after(name, loader, env)
    /\ UNCHANGED <<loader, env, process>>

Call(name, result) ==
    /\ op' = name
    /\ outcome' = result
    /\ prev' = [op |-> op, outcome |-> outcome]
    /\ handles' = handles_after(name, loader, env)
    /\ UNCHANGED <<loader, env, process>>

ExtractText == Call("extract_text", extract_text(loader, env))

ExtractLinks == Call("extract_links", extract_links(loader, env))

ExtractImages == Call("extract_images", extract_images(loader, env))

ExtractTables == Call("extract_tables", extract_tables(loader, env))

Next == ExtractText \/ ExtractLinks \/ ExtractImages \/ ExtractTables

(***************************************************************************)
(* process_file: the loader for the file's extension, the four             *)
(* extractions, the storage for the storage method, the four store_data    *)
(* calls.  A made call is [call, arg, raised]; an exception ends the run.  *)
(***************************************************************************)
MadeCall(call, arg, raised) == [call |-> call, arg |-> arg, raised |-> raised]

\* the if/elif chain on filepath.lower().endswith(...)
loader_class(filepath) ==
    IF endswith(lower(filepath), <<".", "p", "d", "f">>) THEN "PDFLoader"
    ELSE IF endswith(lower(filepath), <<".", "d", "o", "c", "x">>) THEN "DOCXLoader"
    ELSE IF \/ endswith(lower(filepath), <<".", "p", "p", "t">>)
            \/ endswith(lower(filepath), <<".", "p", "p", "t", "x">>) THEN "PPTLoader"
    ELSE "none"

\* the if/elif chain on storage_method
storage_class(storage_method) ==
    IF storage_method = "file" THEN "FileStorage"
    ELSE IF storage_method = "sql" THEN "SQLStorage"
    ELSE "none"

ExtractionOrder == <<"extract_text", "extract_links", "extract_images", "extract_tables">>

DataTypes == <<"text", "links", "images", "tables">>

extraction(name, ld, e) ==
    CASE name = "extract_text" -> extract_text(ld, e)
      [] name = "extract_links" -> extract_links(ld, e)
      [] name = "extract_images" -> extract_images(ld, e)
      [] name = "extract_tables" -> extract_tables(ld, e)

\* lines 19-22: the four extractions, or those up to and including the
\* first that raises
extraction_calls(ld, e) ==
    LET raises == [k \in 1..4 |-> extraction(ExtractionOrder[k], ld, e).status = "raised"]
        first == FirstIndex(LAMBDA raised : raised, raises)
    IN  [k \in 1..(IF first <= 4 THEN first ELSE 4) |->
            MadeCall(ExtractionOrder[k], "filepath", raises[k])]

store_calls == [k \in 1..4 |-> MadeCall("store_data", DataTypes[k], FALSE)]

\* process_file storing each result as soon as it is extracted
process_file_storing_each_result(filepath, storage_method, ld, e) ==
    IF loader_class(filepath) = "none" \/ storage_class(storage_method) = "none"
    THEN [outcome |-> Raised("process_file", "ValueError"), calls |-> <<>>]
    ELSE LET done == extraction_calls(ld, e)
             last == done[Len(done)]
         IN  [outcome |-> IF last.raised
                          THEN Raised("process_file", extraction(last.call, ld, e).error)
                          ELSE Returned("process_file", <<>>),
              calls   |-> <<MadeCall(loader_class(filepath), "", FALSE),
                            MadeCall(storage_class(storage_method), "", FALSE)>>
                          \o Concat([k \in 1..Len(done) |->
                                        <<done[k]>> \o IF done[k].raised THEN <<>>
                                                       ELSE <<store_calls[k]>>])]

process_file(filepath, storage_method, ld, e) ==
    IF loader_class(filepath) = "none"
    THEN [outcome |-> Raised("process_file", "ValueError"), calls |-> <<>>]
    ELSE LET made == <<MadeCall(loader_class(filepath), "", FALSE)>> \o extraction_calls(ld, e)
             last == made[Len(made)]
         IN  IF last.raised
             THEN [outcome |-> Raised("process_file", extraction(last.call, ld, e).error),
                   calls   |-> made]
             ELSE IF storage_class(storage_method) = "none"
             THEN [outcome |-> Raised("process_file", "ValueError"), calls |-> made]
             ELSE [outcome |-> Returned("process_file", <<>>),
                   calls   |-> made \o <<MadeCall(storage_class(storage_method), "", FALSE)>>
                                   \o store_calls]

\* the file at filepath is of the kind its extension says
FileKind(document) ==
    IF "page_count" \in document.attrs THEN "PDFLoader"
    ELSE IF "paragraphs" \in document.attrs THEN "DOCXLoader"
    ELSE "PPTLoader"

\* the extraction process_file called last, "none" if it called none
last_extraction(calls) ==
    LET extracted == {k \in 1..Len(calls) : \E j \in 1..4 : calls[k].call = ExtractionOrder[j]}
    IN  IF extracted = {} THEN "none"
        ELSE calls[CHOOSE k \in extracted : \A j \in extracted : j <= k].call

ProcessFile(filepath, storage_method) ==
    /\ loader_class(filepath) \in {"none", FileKind(loader.document)}
    /\ \E run \in {process_file(filepath, storage_method, loader, env)} :
          /\ op' = "process_file"
          /\ outcome' = run.outcome
          /\ prev' = [op |-> op, outcome |-> outcome]
          /\ handles' = IF last_extraction(run.calls) = "none" THEN handles
                        ELSE handles_after(last_extraction(run.calls), loader, env)
          /\ process' = [filepath |-> filepath, storage_method |-> storage_method,
                         calls |-> run.calls]
          /\ UNCHANGED <<loader, env>>

(***************************************************************************)
(* Building blocks of the documents the specifications start from: every   *)
(* object carries every field the code may read, with the values of an     *)
(* object that holds nothing.                                              *)
(***************************************************************************)
NoFont ==
    [truthy |-> TRUE, attrs |-> {"name", "highlight_color"}, name |-> None,
     size |-> [set |-> FALSE, pt |-> 0], bold |-> None, italic |-> None,
     underline |-> None, highlight_color |-> None,
     color |-> [truthy |-> TRUE, attrs |-> {"rgb"}, rgb |-> None]]

Run(text) ==
    [text |-> text, font |-> NoFont, bold |-> None, italic |-> None, underline |-> None]

Paragraph(text, runs) ==
    [attrs |-> {"style", "alignment", "runs"}, text |-> text, style |-> "Normal",
     alignment |-> None, runs |-> runs]

NoImage == [raises |-> FALSE, blob |-> <<>>, ext |-> "png", width |-> 0, height |-> 0]

EmptyShape ==
    [attrs        |-> {"shape_id"},
     shape_id     |-> 0,
     text_frame   |-> [is_none |-> TRUE, paragraphs |-> <<>>],
     text         |-> <<>>,
     has_table    |-> FALSE,
     table        |-> [rows |-> <<>>],
     click_action |-> [truthy |-> FALSE, raises |-> FALSE, hyperlink |-> <<>>],
     shape_type   |-> "AUTO_SHAPE",
     image        |-> NoImage,
     fill         |-> [type |-> None, picture |-> NoImage],
     shapes       |-> <<>>,
     element      |-> [xpath_raises |-> FALSE, blips |-> <<>>],
     part         |-> [has_related_parts |-> TRUE, related_parts |-> <<>>]]

Slide(shapes) == [shapes |-> shapes, rels |-> <<>>]

Row(texts) == [cells_raise |-> FALSE, cells |-> [k \in 1..Len(texts) |-> [text |-> texts[k]]]]

Table(grid) == [style |-> None, rows |-> Map(Row, grid)]

EmptyPage ==
    [number |-> 0, rotation |-> 0, get_text_raises |-> FALSE, blocks |-> <<>>,
     get_links_raises |-> FALSE, links |-> <<>>, images |-> <<>>]

EmptyDocument ==
    [attrs         |-> {},
     metadata      |-> {},
     page_count    |-> 0,
     fitz_pages    |-> <<>>,
     pages         |-> <<>>,
     paragraphs    |-> <<>>,
     inline_shapes |-> <<>>,
     element       |-> [xpath_raises |-> FALSE, drawings |-> <<>>],
     tables        |-> <<>>,
     slides        |-> <<>>]

\* the secondary backend's view of a file it cannot read anything from
EmptyPdf == [open_raises |-> FALSE, pages |-> <<>>]

PlumberPage(layout_text, table) ==
    [layout_text |-> layout_text, layout_raises |-> FALSE,
     table |-> table, table_raises |-> FALSE]

\* a loader whose file passes the checks and opens into the document
Loads(document) == [valid |-> TRUE, exists |-> TRUE, opens |-> TRUE, document |-> document]

Loaded == load_file(loader).error = "none"

Environment(fitz, pdfplumber, pdf) == [fitz |-> fitz, pdfplumber |-> pdfplumber, pdf |-> pdf]

\* the documents of the three loaders, as the backends expose them
PageStream(pages) ==
    [EmptyDocument EXCEPT !.attrs = {"page_count", "pages"},
                          !.page_count = Len(pages),
                          !.fitz_pages = [i \in 1..Len(pages) |-> [pages[i] EXCEPT !.number = i - 1]]]

FlowDocument(paragraphs, tables) ==
    [EmptyDocument EXCEPT !.attrs = {"paragraphs", "tables", "inline_shapes", "element"},
                          !.paragraphs = paragraphs,
                          !.tables = tables]

SlideDeck(slides) == [EmptyDocument EXCEPT !.attrs = {"slides"}, !.slides = slides]

(***************************************************************************)
(* Spec: the four operations on document objects exposing any combination  *)
(* of the attributes the operations probe, with any loader result and any  *)
(* combination of importable backends.                                     *)
(***************************************************************************)
Markers == {"page_count", "pages", "paragraphs", "inline_shapes", "tables", "slides"}

TextShape(text) ==
    [EmptyShape EXCEPT !.attrs = {"shape_id", "text_frame", "text"},
                       !.text_frame = [is_none |-> FALSE,
                                       paragraphs |-> <<Paragraph(text, <<Run(text)>>)>>],
                       !.text = text]

LinePage(text) ==
    [EmptyPage EXCEPT !.blocks = <<[type |-> 0,
                                    lines |-> <<[spans |-> <<[text |-> text,
                                                              font |-> <<"F">>,
                                                              size |-> 12]>>]>>]>>]

RawPage(raw_text) == [has_extract_text |-> TRUE, extract_raises |-> FALSE, raw_text |-> raw_text]

SampleContents ==
    [PageStream(<<LinePage(<<"a">>)>>) EXCEPT
        !.pages = <<RawPage(<<"a">>)>>,
        !.paragraphs = <<Paragraph(<<"a">>, <<Run(<<"a">>)>>)>>,
        !.tables = <<Table(<< <<(<<"a">>)>> >>)>>,
        !.slides = <<Slide(<<TextShape(<<"a">>)>>)>>]

SamplePdf == [open_raises |-> FALSE, pages |-> <<PlumberPage(<<"a">>, <<>>)>>]

Init ==
    /\ loader \in [valid : BOOLEAN, exists : BOOLEAN, opens : BOOLEAN,
                   document : {[SampleContents EXCEPT !.attrs = a] : a \in SUBSET Markers}]
    /\ env \in [fitz : BOOLEAN, pdfplumber : BOOLEAN, pdf : {SamplePdf}]
    /\ op = "none"
    /\ outcome = NoCall
    /\ prev = NoPrev
    /\ handles = NoHandles /\ process = NoProcess

Spec == Init /\ [][Next]_vars

Called == op # "none"

\* C1: a document exposing none of the capability markers makes each of the
\* four operations raise the unsupported-type error; none returns a record list.
UnsupportedDocumentRaises ==
    (Called /\ Loaded /\ loader.document.attrs \cap Markers = {})
        => /\ outcome.status = "raised"
           /\ outcome.error = "ValueError"
           /\ outcome.variant = "unsupported"

UnsupportedDocumentReached ==
    /\ op = "extract_tables"
    /\ Loaded
    /\ loader.document.attrs = {}
    /\ outcome.status = "raised"

\* C2 (as claimed): every operation picks its strategy by the first matching
\* marker in the order page_count, pages, paragraphs, slides.
ClaimedStrategy(document) ==
    IF hasattr(document, "page_count") THEN "page_stream"
    ELSE IF hasattr(document, "pages") THEN "alt_page_stream"
    ELSE IF hasattr(document, "paragraphs") THEN "flow"
    ELSE IF hasattr(document, "slides") THEN "slide_deck"
    ELSE "unsupported"

SameStrategyInEveryOperation ==
    (Called /\ Loaded /\ env.fitz) => outcome.variant = ClaimedStrategy(loader.document)

\* C3: an error raised by the loader reaches the caller unchanged from each
\* of the four operations, and no record list is returned.
LoaderErrorPropagates ==
    (Called /\ ~Loaded)
        => /\ outcome.status = "raised"
           /\ outcome.error = load_file(loader).error
           /\ outcome.error \in {"ValueError", "FileNotFoundError", "IOError"}

LoaderErrorReached ==
    /\ op = "extract_text"
    /\ load_file(loader).error = "FileNotFoundError"
    /\ outcome.status = "raised"
    /\ outcome.error = "FileNotFoundError"

(***************************************************************************)
(* SpecPageText: extract_text on the documents PDFLoader returns.          *)
(***************************************************************************)
Span(text, font) == [text |-> text, font |-> font, size |-> 12]

TextBlock(lines) == [type |-> 0, lines |-> lines]

ImageBlock == [type |-> 1, lines |-> <<>>]

PageSamples ==
    { EmptyPage,
      LinePage(<<"a">>),
      \* an image block, a line of blanks only, a line of two spans
      [EmptyPage EXCEPT !.blocks =
          << ImageBlock,
             TextBlock(<< [spans |-> <<Span(<<" ">>, <<>>)>>],
                          [spans |-> <<Span(<<"a", " ">>, <<"B", "o", "l", "d">>),
                                       Span(<<" ", "b">>, <<"F">>)>>] >>) >>],
      \* two blocks of one line each
      [EmptyPage EXCEPT !.blocks =
          << TextBlock(<<[spans |-> <<Span(<<"a">>, <<"F">>)>>]>>),
             TextBlock(<<[spans |-> <<Span(<<"b">>, <<"F">>)>>]>>) >>] }

MetadataSamples == { {}, {<<"title", "Fake PDF">>, <<"author", "Tester">>} }

InitPageText ==
    /\ loader \in {Loads([PageStream(pages) EXCEPT !.metadata = metadata]) :
                      pages \in SeqsUpTo(PageSamples, MaxPages),
                      metadata \in MetadataSamples}
    /\ env \in [fitz : {TRUE}, pdfplumber : BOOLEAN, pdf : {EmptyPdf}]
    /\ op = "none"
    /\ outcome = NoCall
    /\ prev = NoPrev
    /\ handles = NoHandles /\ process = NoProcess

SpecPageText == InitPageText /\ [][ExtractText]_vars

\* C5: for a page-stream document on the primary backend, the first record of
\* extract_text is the whole-document metadata record and every later record
\* has a page p with 1 <= p <= page_count.
PageStreamTextRecords ==
    (op = "extract_text" /\ outcome.status = "returned" /\ outcome.variant = "page_stream")
        => /\ Len(outcome.value) >= 1
           /\ outcome.value[1] = [document_metadata |-> loader.document.metadata]
           /\ \A k \in 2..Len(outcome.value) :
                 /\ "page" \in DOMAIN outcome.value[k]
                 /\ outcome.value[k].page >= 1
                 /\ outcome.value[k].page <= loader.document.page_count

PageStreamTextReached ==
    /\ op = "extract_text"
    /\ outcome.status = "returned"
    /\ outcome.variant = "page_stream"
    /\ loader.document.page_count = 2
    /\ loader.document.metadata = {}
    /\ Len(outcome.value) = 4
    /\ outcome.value[2].page = 1
    /\ outcome.value[4].page = 2

(***************************************************************************)
(* SpecFlowText: extract_text on the documents DOCXLoader returns.         *)
(***************************************************************************)
SetFont ==
    [NoFont EXCEPT !.name = "Arial", !.size = [set |-> TRUE, pt |-> 12],
                   !.color = [truthy |-> TRUE, attrs |-> {"rgb"}, rgb |-> "FF0000"]]

ParagraphSamples ==
    { Paragraph(<<>>, <<>>),
      Paragraph(<<" ">>, <<Run(<<" ">>)>>),
      Paragraph(<<" ", "a", " ">>, <<Run(<<" ", "a">>), Run(<<" ">>)>>),
      Paragraph(<<"b">>, <<[Run(<<"b">>) EXCEPT !.font = SetFont, !.bold = "True"]>>),
      Paragraph(<<"a", " ", "b">>, <<Run(<<"a">>), Run(<<" ">>), Run(<<"b">>)>>),
      \* a paragraph object without style, alignment and runs
      [Paragraph(<<"a">>, <<>>) EXCEPT !.attrs = {}] }

InitFlowText ==
    /\ loader \in {Loads(FlowDocument(paragraphs, <<>>)) :
                      paragraphs \in SeqsUpTo(ParagraphSamples, MaxParas)}
    /\ env \in [fitz : BOOLEAN, pdfplumber : {FALSE}, pdf : {EmptyPdf}]
    /\ op = "none"
    /\ outcome = NoCall
    /\ prev = NoPrev
    /\ handles = NoHandles /\ process = NoProcess

SpecFlowText == InitFlowText /\ [][ExtractText]_vars

\* t is s without its leading and trailing whitespace
IsTrimOf(t, s) ==
    /\ t # <<>> => ~IsSpace(t[1]) /\ ~IsSpace(t[Len(t)])
    /\ \E a \in 0..Len(s) :
          /\ a + Len(t) <= Len(s)
          /\ SubSeq(s, a + 1, a + Len(t)) = t
          /\ \A i \in (1..a) \cup ((a + Len(t) + 1)..Len(s)) : IsSpace(s[i])

SourceRuns(para) == IF "runs" \in para.attrs THEN para.runs ELSE <<>>

\* C6: for a flow document with N paragraphs extract_text returns N records,
\* the k-th holding the trimmed text of the k-th paragraph and one run record
\* per run in run order; paragraphs with empty text are kept.
FlowTextOneRecordPerParagraph ==
    (op = "extract_text" /\ outcome.status = "returned" /\ outcome.variant = "flow")
        => /\ Len(outcome.value) = Len(loader.document.paragraphs)
           /\ \A k \in 1..Len(outcome.value) :
                 LET para == loader.document.paragraphs[k]
                     record == outcome.value[k]
                 IN  /\ IsTrimOf(record.text, para.text)
                     /\ Len(record.runs) = Len(SourceRuns(para))
                     /\ \A j \in 1..Len(record.runs) :
                           record.runs[j].text = SourceRuns(para)[j].text

FlowTextReached ==
    /\ op = "extract_text"
    /\ outcome.status = "returned"
    /\ outcome.variant = "flow"
    /\ Len(loader.document.paragraphs) = 3
    /\ loader.document.paragraphs[1].text = <<" ">>
    /\ outcome.value[1].text = <<>>
    /\ loader.document.paragraphs[2].text = <<" ", "a", " ">>
    /\ outcome.value[2].text = <<"a">>
    /\ Len(outcome.value[2].runs) = 2
    /\ outcome.value[3].text = <<>>

(***************************************************************************)
(* SpecSlideText: extract_text on the documents PPTLoader returns: decks   *)
(* of several slides, and decks of one shape holding several paragraphs.   *)
(* A shape's id tells its place: 10 * slide + position on the slide.       *)
(***************************************************************************)
FrameShape(paragraphs) ==
    [EmptyShape EXCEPT !.attrs = {"shape_id", "text_frame", "text"},
                       !.text_frame = [is_none |-> FALSE, paragraphs |-> paragraphs],
                       !.text = join(<<"\n">>, Map(LAMBDA para : para.text, paragraphs))]

\* a shape with a bare text property and no text frame
BareTextShape(text) == [EmptyShape EXCEPT !.attrs = {"shape_id", "text"}, !.text = text]

SlideParagraph(text, runs) == [text |-> text, alignment |-> None, runs |-> runs]

SlideRun(text, font_name) ==
    [text |-> text, font |-> [NoFont EXCEPT !.name = font_name]]

BlankFrame == FrameShape(<<SlideParagraph(<<" ">>, <<SlideRun(<<" ">>, None)>>)>>)

WordFrame == FrameShape(<<SlideParagraph(<<"a">>, <<SlideRun(<<"a">>, None)>>)>>)

\* the shapes of a slide, by the text they carry
ShapeListSamples ==
    { <<>>,
      <<WordFrame>>,
      <<BlankFrame>>,
      <<EmptyShape, BareTextShape(<<" ", "b">>)>>,
      <<BlankFrame, BareTextShape(<<" ">>)>>,
      <<[WordFrame EXCEPT !.text_frame.is_none = TRUE, !.text = <<>>], WordFrame>> }

SlideParagraphSamples ==
    { SlideParagraph(<<"a">>, <<SlideRun(<<"a">>, "Arial")>>),
      SlideParagraph(<<" ", "a">>, <<SlideRun(<<" ">>, None), SlideRun(<<"a">>, None)>>),
      SlideParagraph(<<"b", " ">>, <<SlideRun(<<"b", " ">>, None)>>),
      SlideParagraph(<<" ">>, <<>>) }

NumberedSlide(i, shapes) ==
    Slide([k \in 1..Len(shapes) |-> [shapes[k] EXCEPT !.shape_id = 10 * i + k]])

NumberedDeck(shape_lists) ==
    SlideDeck([i \in 1..Len(shape_lists) |-> NumberedSlide(i, shape_lists[i])])

InitSlideText ==
    /\ loader \in {Loads(NumberedDeck(shape_lists)) :
                      shape_lists \in SeqsUpTo(ShapeListSamples, MaxSlides)}
                  \cup {Loads(NumberedDeck(<< <<FrameShape(paragraphs)>> >>)) :
                           paragraphs \in SeqsUpTo(SlideParagraphSamples, MaxParas)}
    /\ env \in [fitz : BOOLEAN, pdfplumber : {FALSE}, pdf : {EmptyPdf}]
    /\ op = "none"
    /\ outcome = NoCall
    /\ prev = NoPrev
    /\ handles = NoHandles /\ process = NoProcess

SpecSlideText == InitSlideText /\ [][ExtractText]_vars

SlideTextReturned ==
    op = "extract_text" /\ outcome.status = "returned" /\ outcome.variant = "slide_deck"

\* C7: in the slide-deck output of extract_text no shape entry has a missing
\* or empty text and no slide entry has an empty shapes list; every entry
\* keeps the 1-based position of its slide, and entries are in slide order.
SlideTextKeepsOnlyText ==
    SlideTextReturned
        => /\ \A k \in 1..Len(outcome.value) :
                 LET entry == outcome.value[k]
                 IN  /\ entry.shapes # <<>>
                     /\ entry.slide \in 1..Len(loader.document.slides)
                     /\ \A n \in 1..Len(entry.shapes) :
                           /\ entry.shapes[n].has_text
                           /\ entry.shapes[n].text # <<>>
                           /\ entry.shapes[n].geometry.shape_id \div 10 = entry.slide
           /\ \A k \in 1..Len(outcome.value), l \in 1..Len(outcome.value) :
                 k < l => outcome.value[k].slide < outcome.value[l].slide

\* a deck whose first slide is dropped and whose second slide loses a shape
SlideTextOmissionReached ==
    /\ SlideTextReturned
    /\ Len(loader.document.slides) = 2
    /\ Len(loader.document.slides[1].shapes) = 2
    /\ Len(loader.document.slides[2].shapes) = 2
    /\ Len(outcome.value) = 1
    /\ outcome.value[1].slide = 2
    /\ Len(outcome.value[1].shapes) = 1

\* the shape of the deck an emitted shape entry comes from
SourceShape(entry, shape_data) ==
    loader.document.slides[entry.slide].shapes[shape_data.geometry.shape_id % 10]

\* the position of the first paragraph of the frame whose trimmed text is text
FirstOccurrence(paragraphs, text) ==
    CHOOSE k \in 1..Len(paragraphs) :
        /\ strip(paragraphs[k].text) = text
        /\ \A j \in 1..(k - 1) : strip(paragraphs[j].text) # text

\* C8: within one shape the emitted paragraph list holds each distinct
\* non-empty trimmed paragraph text once, in order of first occurrence, with
\* the runs of the first paragraph of that text; the shape's text is these
\* texts joined by single spaces.
ShapeParagraphsDeduplicated ==
    SlideTextReturned
        => \A k \in 1..Len(outcome.value) : \A n \in 1..Len(outcome.value[k].shapes) :
              LET shape_data == outcome.value[k].shapes[n]
                  shape == SourceShape(outcome.value[k], shape_data)
                  source == shape.text_frame.paragraphs
                  emitted == shape_data.paragraphs
                  first(a) == FirstOccurrence(source, emitted[a].text)
              IN  ~shape.text_frame.is_none
                  => /\ {emitted[a].text : a \in 1..Len(emitted)}
                           = {strip(source[j].text) : j \in 1..Len(source)} \ {<<>>}
                     /\ \A a \in 1..Len(emitted), b \in 1..Len(emitted) :
                           /\ a # b => emitted[a].text # emitted[b].text
                           /\ a < b => first(a) < first(b)
                     /\ \A a \in 1..Len(emitted) :
                           /\ Len(emitted[a].runs) = Len(source[first(a)].runs)
                           /\ \A j \in 1..Len(emitted[a].runs) :
                                 emitted[a].runs[j].text = source[first(a)].runs[j].text
                     /\ shape_data.text
                           = join(<<" ">>, [a \in 1..Len(emitted) |-> emitted[a].text])

\* a frame whose text "a" occurs twice, around another text
DuplicateParagraphReached ==
    /\ SlideTextReturned
    /\ Len(loader.document.slides) = 1
    /\ Len(loader.document.slides[1].shapes) = 1
    /\ Len(loader.document.slides[1].shapes[1].text_frame.paragraphs) = 3
    /\ loader.document.slides[1].shapes[1].text_frame.paragraphs[1].text = <<" ", "a">>
    /\ loader.document.slides[1].shapes[1].text_frame.paragraphs[3].text = <<"a">>
    /\ Len(outcome.value) = 1
    /\ Len(outcome.value[1].shapes[1].paragraphs) = 2
    /\ outcome.value[1].shapes[1].text = <<"a", " ", "b">>
    /\ Len(outcome.value[1].shapes[1].paragraphs[1].runs) = 2

(***************************************************************************)
(* SpecTables: extract_tables on a document of each loader holding one     *)
(* table of any grid within the bounds; for the page-stream document the   *)
(* grid is what the secondary backend finds on the file's page.            *)
(***************************************************************************)
CellTexts == { <<"a">>, <<" ", "b", " ">> }

Grids == SeqsUpTo(SeqsUpTo(CellTexts, MaxCells), MaxRows)

TableShape(grid) ==
    [EmptyShape EXCEPT !.attrs = {"shape_id", "has_table", "table"},
                       !.has_table = TRUE,
                       !.table = Table(grid)]

InitTables ==
    /\ \E grid \in Grids :
          \/ /\ loader = Loads(FlowDocument(<<>>, <<Table(grid)>>))
             /\ env = Environment(TRUE, TRUE, EmptyPdf)
          \/ /\ loader = Loads(NumberedDeck(<< <<WordFrame, TableShape(grid)>> >>))
             /\ env = Environment(TRUE, TRUE, EmptyPdf)
          \/ /\ loader = Loads(PageStream(<<EmptyPage>>))
             /\ env = Environment(TRUE, TRUE,
                                  [open_raises |-> FALSE,
                                   pages |-> <<PlumberPage(<<>>, grid)>>])
    /\ op = "none"
    /\ outcome = NoCall
    /\ prev = NoPrev
    /\ handles = NoHandles /\ process = NoProcess

SpecTables == InitTables /\ [][ExtractTables]_vars

TablesReturned == op = "extract_tables" /\ outcome.status = "returned"

IsTableRecord(record) == "data" \in DOMAIN record

\* C9: in every table record of extract_tables, in every variant, columns is
\* the length of the first row of data, and 0 when data is empty.
ColumnsIsFirstRowWidth ==
    TablesReturned
        => \A k \in 1..Len(outcome.value) :
              LET record == outcome.value[k]
              IN  IsTableRecord(record)
                  => record.columns = (IF record.data = <<>> THEN 0
                                       ELSE Len(record.data[1]))

\* a ragged grid whose first row is the shorter one
RaggedColumnsReached ==
    /\ TablesReturned
    /\ outcome.variant = "page_stream"
    /\ Len(outcome.value) = 1
    /\ IsTableRecord(outcome.value[1])
    /\ Len(outcome.value[1].data) = 2
    /\ Len(outcome.value[1].data[1]) = 1
    /\ Len(outcome.value[1].data[2]) = 2
    /\ outcome.value[1].columns = 1

\* the table of the document the call read
SourceTable ==
    IF outcome.variant = "flow" THEN loader.document.tables[1]
    ELSE loader.document.slides[1].shapes[2].table

\* C10: for flow-document and slide-deck tables the data grid has one row per
\* source row and one trimmed cell text per source cell, in source order, with
\* rows of differing widths kept as they are; rows is the number of source rows.
GridKeepsRowsAndCells ==
    (TablesReturned /\ outcome.variant \in {"flow", "slide_deck"})
        => \A k \in 1..Len(outcome.value) :
              LET record == outcome.value[k]
                  rows == SourceTable.rows
              IN  /\ record.rows = Len(rows)
                  /\ Len(record.data) = Len(rows)
                  /\ \A r \in 1..Len(rows) :
                        /\ Len(record.data[r]) = Len(rows[r].cells)
                        /\ \A c \in 1..Len(rows[r].cells) :
                              IsTrimOf(record.data[r][c], rows[r].cells[c].text)

\* a slide-deck table with an empty first row and a row of two cells
RaggedGridReached ==
    /\ TablesReturned
    /\ outcome.variant = "slide_deck"
    /\ Len(outcome.value) = 1
    /\ outcome.value[1].rows = 2
    /\ outcome.value[1].data = << <<>>, << <<"b">>, <<"a">> >> >>

(***************************************************************************)
(* SpecFailures: extract_images and extract_tables on documents in which   *)
(* the backend raises on some items: an image whose decoding raises, a     *)
(* table row whose cells cannot be read.                                   *)
(***************************************************************************)
PageImage(xref, extract_raises) ==
    [xref |-> xref, extract_raises |-> extract_raises, image |-> <<"x">>,
     width |-> 200, height |-> 100, ext |-> "png"]

ImageListSamples ==
    { <<PageImage(1, FALSE)>>,
      <<PageImage(1, TRUE)>>,
      <<PageImage(1, FALSE), PageImage(2, TRUE)>>,
      <<PageImage(1, TRUE), PageImage(2, FALSE)>> }

GoodTable == Table(<< <<(<<"a">>)>> >>)

BrokenRow == [Row(<<(<<"a">>)>>) EXCEPT !.cells_raise = TRUE]

BrokenTable == [style |-> None, rows |-> <<BrokenRow>>]

TableListSamples ==
    { <<GoodTable>>, <<BrokenTable>>, <<GoodTable, BrokenTable>>,
      <<BrokenTable, GoodTable>>, <<GoodTable, GoodTable>> }

TableShapeListSamples ==
    { <<TableShape(<< <<(<<"a">>)>> >>)>>,
      <<[TableShape(<<>>) EXCEPT !.table = BrokenTable], TableShape(<< <<(<<"a">>)>> >>)>>,
      <<WordFrame, [TableShape(<<>>) EXCEPT !.table = BrokenTable]>> }

InitFailures ==
    /\ loader \in {Loads(PageStream([i \in 1..Len(lists) |->
                                        [EmptyPage EXCEPT !.images = lists[i]]])) :
                      lists \in SeqsUpTo(ImageListSamples, MaxPages)}
                  \cup {Loads(FlowDocument(<<>>, tables)) : tables \in TableListSamples}
                  \cup {Loads(NumberedDeck(<<shapes>>)) : shapes \in TableShapeListSamples}
    /\ env \in [fitz : {TRUE}, pdfplumber : BOOLEAN, pdf : {EmptyPdf}]
    /\ op = "none"
    /\ outcome = NoCall
    /\ prev = NoPrev
    /\ handles = NoHandles /\ process = NoProcess

NextFailures == ExtractImages \/ ExtractTables

SpecFailures == InitFailures /\ [][NextFailures]_vars

AllPageImages == Concat(Map(LAMBDA page : page.images, loader.document.fitz_pages))

\* C4 (as claimed): a failure on a single item never leaves the operation; the
\* item is skipped and the records of the other items are returned.
ItemFailureIsSkipped ==
    (Called /\ Loaded /\ outcome.variant # "unsupported")
        => /\ outcome.status = "returned"
           /\ (op = "extract_images" /\ outcome.variant = "page_stream")
                 => Len(outcome.value)
                       = Len(Filter(LAMBDA img : ~img.extract_raises, AllPageImages))
           /\ (op = "extract_tables" /\ outcome.variant = "flow")
                 => Len(outcome.value)
                       = Len(Filter(LAMBDA table : ~grid_raises(table),
                                    loader.document.tables))

(***************************************************************************)
(* SpecLinks: extract_links on page-stream documents of the primary        *)
(* backend (link annotations), on documents of the alternate backend (page *)
(* text read by the layout-aware or the raw extraction) and on slide decks *)
(* whose shapes carry click actions.                                       *)
(***************************************************************************)
Link(uri) == [uri |-> uri, from |-> <<0, 0, 1, 1>>, kind |-> 2]

LinkListSamples ==
    {<<>>, <<Link("A")>>, <<Link("A"), Link("A")>>,
     <<Link("A"), Link("B"), Link("A")>>, <<Link(""), Link("B")>>}

UrlA == <<"h", "t", "t", "p", ":", "/", "/", "a">>

UrlTextSamples ==
    {<<>>, UrlA, UrlA \o <<" ">> \o UrlA, UrlA \o <<"\n">> \o UrlA \o <<"b">>}

LinkShape(url, text) ==
    [EmptyShape EXCEPT !.attrs = {"shape_id", "click_action", "text"},
                       !.click_action = [truthy |-> TRUE, raises |-> FALSE, hyperlink |-> url],
                       !.text = text]

\* a shape whose click_action raises when read
RaisingLinkShape == [LinkShape(UrlA, <<"x">>) EXCEPT !.click_action.raises = TRUE]

LinkShapeListSamples ==
    {<<>>,
     <<LinkShape(UrlA, <<"x">>)>>,
     <<LinkShape(UrlA, <<"x">>), LinkShape(UrlA, <<"x", " ">>)>>,
     <<LinkShape(UrlA, <<"x">>), EmptyShape, LinkShape(UrlA, <<>>)>>,
     <<RaisingLinkShape>>}

InitLinks ==
    /\ \/ /\ loader \in {Loads(PageStream([i \in 1..Len(lists) |->
                                              [EmptyPage EXCEPT !.links = lists[i]]])) :
                            lists \in SeqsUpTo(LinkListSamples, MaxPages)}
          /\ env \in [fitz : {TRUE}, pdfplumber : BOOLEAN, pdf : {EmptyPdf}]
       \/ \E texts \in SeqsUpTo(UrlTextSamples, MaxPages) :
             /\ loader = Loads([EmptyDocument EXCEPT !.attrs = {"pages"},
                                                     !.pages = Map(RawPage, texts)])
             /\ env \in [fitz : BOOLEAN, pdfplumber : BOOLEAN,
                         pdf : {[open_raises |-> FALSE,
                                 pages |-> Map(LAMBDA text : PlumberPage(text, <<>>), texts)]}]
       \/ /\ loader \in {Loads(NumberedDeck(shape_lists)) :
                            shape_lists \in SeqsUpTo(LinkShapeListSamples, MaxSlides)}
          /\ env \in [fitz : BOOLEAN, pdfplumber : {FALSE}, pdf : {EmptyPdf}]
    /\ op = "none"
    /\ outcome = NoCall
    /\ prev = NoPrev
    /\ handles = NoHandles /\ process = NoProcess

SpecLinks == InitLinks /\ [][ExtractLinks]_vars

LinksReturned == op = "extract_links" /\ outcome.status = "returned"

\* C11 (as claimed): extract_links never returns two records with the same
\* (page, uri) for page-stream input, whichever backend produced them, nor two
\* records with the same (url, text) for the same slide for slide-deck input.
LinksNotRepeatedInOneLocation ==
    LinksReturned =>
        \A j, k \in 1..Len(outcome.value) :
            j # k =>
                /\ outcome.variant \in {"page_stream", "alt_page_stream"}
                      => <<outcome.value[j].page, outcome.value[j].uri>>
                            # <<outcome.value[k].page, outcome.value[k].uri>>
                /\ outcome.variant = "slide_deck"
                      => <<outcome.value[j].slide, outcome.value[j].url, outcome.value[j].text>>
                            # <<outcome.value[k].slide, outcome.value[k].url,
                                outcome.value[k].text>>

\* the (url, text) pairs of the shapes of slide i that carry a hyperlink
SlideLinkPairs(i) ==
    {<<strip(shape.click_action.hyperlink),
       IF "text" \in shape.attrs THEN strip(shape.text) ELSE <<>>>> :
        shape \in {loader.document.slides[i].shapes[k] :
                      k \in {n \in 1..Len(loader.document.slides[i].shapes) :
                                LET s == loader.document.slides[i].shapes[n]
                                IN  /\ "click_action" \in s.attrs
                                    /\ ~s.click_action.raises
                                    /\ s.click_action.truthy
                                    /\ strip(s.click_action.hyperlink) # <<>>}}}

\* the non-empty URIs of the link annotations of page i
PageLinkUris(i) ==
    {loader.document.fitz_pages[i].links[k].uri :
        k \in 1..Len(loader.document.fitz_pages[i].links)} \ {""}

\* C12 (as claimed): suppression is scoped to one location: every page yields
\* one record per distinct non-empty URI of its link annotations, and every
\* slide yields one record per distinct (URL, text) of its hyperlink shapes,
\* whatever the other pages and slides hold.
LinkSuppressionIsPerLocation ==
    LinksReturned =>
        /\ outcome.variant = "page_stream"
              => \A i \in 1..loader.document.page_count :
                    Len(Filter(LAMBDA r : r.page = i, outcome.value))
                       = Cardinality(PageLinkUris(i))
        /\ outcome.variant = "slide_deck"
              => \A i \in 1..Len(loader.document.slides) :
                    Len(Filter(LAMBDA r : r.slide = i, outcome.value))
                       = Cardinality(SlideLinkPairs(i))

(***************************************************************************)
(* SpecDeckTables: extract_tables on slide decks of several slides whose   *)
(* shapes hold tables, tables that cannot be read, tables without rows and *)
(* shapes without a table.                                                 *)
(***************************************************************************)
DeckTableSamples ==
    TableShapeListSamples
       \cup { <<>>, <<WordFrame>>, <<TableShape(<<>>)>>,
              <<TableShape(<<>>), TableShape(<< <<(<<"b">>)>> >>)>>,
              <<TableShape(<< <<(<<"a">>)>> >>), TableShape(<< <<(<<"b">>)>> >>)>> }

InitDeckTables ==
    /\ loader \in {Loads(NumberedDeck(shape_lists)) :
                      shape_lists \in SeqsUpTo(DeckTableSamples, MaxSlides)}
    /\ env \in [fitz : BOOLEAN, pdfplumber : {FALSE}, pdf : {EmptyPdf}]
    /\ op = "none"
    /\ outcome = NoCall
    /\ prev = NoPrev
    /\ handles = NoHandles /\ process = NoProcess

SpecDeckTables == InitDeckTables /\ [][ExtractTables]_vars

\* the shapes of the deck flagged as table-bearing, in slide and shape order
DeckTableShapes ==
    Filter(LAMBDA item : "has_table" \in item.shape.attrs /\ item.shape.has_table,
           deck_shapes(loader.document.slides))

\* a table shape that yields a record: its table can be read and has rows
YieldsRecord(item) == ~grid_raises(item.shape.table) /\ item.shape.table.rows # <<>>

\* C13: in slide-deck table extraction the table_index values are 1, 2, ..., k
\* in emission order over the whole deck; a shape whose table access raises and
\* a table with an empty grid emit no record and consume no index.
DeckTableIndexIsGlobal ==
    (TablesReturned /\ outcome.variant = "slide_deck") =>
        /\ \A k \in 1..Len(outcome.value) : outcome.value[k].table_index = k
        /\ Len(outcome.value) = Len(Filter(YieldsRecord, DeckTableShapes))
        /\ \A k \in 1..Len(outcome.value) :
              outcome.value[k].slide = Filter(YieldsRecord, DeckTableShapes)[k].slide

\* a record of the second slide numbered after a record of the first, in a
\* deck where a table shape was skipped
DeckTableIndexReached ==
    /\ TablesReturned /\ outcome.variant = "slide_deck"
    /\ Len(outcome.value) >= 2
    /\ outcome.value[1].slide = 1
    /\ outcome.value[Len(outcome.value)].slide = 2
    /\ Len(DeckTableShapes) > Len(outcome.value)

(***************************************************************************)
(* SpecAltPages: extract_text and extract_links on documents of the        *)
(* alternate page-stream backend.  Each page has the text its raw          *)
(* extraction and its layout-aware extraction give, and either extraction  *)
(* may raise; the secondary backend may be missing or fail to open.        *)
(***************************************************************************)
AltPage(text, extract_raises, layout_raises) ==
    [raw    |-> [RawPage(text) EXCEPT !.extract_raises = extract_raises],
     layout |-> [PlumberPage(text, <<>>) EXCEPT !.layout_raises = layout_raises]]

AltPageSamples ==
    {AltPage(text, extract_raises, layout_raises) :
        text \in {<<"a", " ", "\n", "b">>, UrlA},
        extract_raises \in BOOLEAN, layout_raises \in BOOLEAN}
       \cup {[AltPage(<<"a">>, FALSE, TRUE) EXCEPT !.raw.has_extract_text = FALSE]}

InitAltPages ==
    /\ \E pages \in SeqsUpTo(AltPageSamples, MaxPages) :
          /\ loader = Loads([EmptyDocument EXCEPT
                                !.attrs = {"pages"},
                                !.pages = Map(LAMBDA page : page.raw, pages)])
          /\ env \in [fitz : {FALSE}, pdfplumber : BOOLEAN,
                      pdf : [open_raises : BOOLEAN,
                             pages : {Map(LAMBDA page : page.layout, pages)}]]
    /\ op = "none"
    /\ outcome = NoCall
    /\ prev = NoPrev
    /\ handles = NoHandles /\ process = NoProcess

NextAltPages == ExtractText \/ ExtractLinks

SpecAltPages == InitAltPages /\ [][NextAltPages]_vars

AltTextReturned == op = "extract_text" /\ outcome.variant = "alt_page_stream"

\* the raw extraction runs when the secondary backend is missing or has failed
RawTierRan == ~env.pdfplumber \/ layout_fails(env.pdf)

RawRaises(i) ==
    loader.document.pages[i].has_extract_text /\ loader.document.pages[i].extract_raises

\* C14: on the alternate backend, when the text extraction of a page raises the
\* operation does not raise: the page gets a record whose text is the error
\* string, and every other page still gets a record with its extracted text.
AltTextFailureIsInline ==
    AltTextReturned =>
        /\ outcome.status = "returned"
        /\ RawTierRan =>
              \A i \in 1..Len(loader.document.pages) :
                  \E k \in 1..Len(outcome.value) :
                      /\ outcome.value[k].page = i
                      /\ outcome.value[k].text
                            = IF RawRaises(i) THEN ErrorText
                              ELSE merge_lines(IF loader.document.pages[i].has_extract_text
                                               THEN loader.document.pages[i].raw_text
                                               ELSE <<>>)
        /\ \A k \in 1..Len(outcome.value) :
              outcome.value[k].text = ErrorText => RawRaises(outcome.value[k].page)

\* two pages read by the raw extraction, which raises for the first only
AltTextFailureReached ==
    /\ AltTextReturned /\ RawTierRan
    /\ Len(loader.document.pages) = 2
    /\ RawRaises(1) /\ ~RawRaises(2)
    /\ \E k \in 1..Len(outcome.value) :
          outcome.value[k].page = 2 /\ outcome.value[k].text = <<"a", " ", "b">>

(***************************************************************************)
(* Resources and sequences of calls, checked under Spec.                   *)
(***************************************************************************)
\* C15 (as claimed): when an operation returns or raises, the document handle
\* obtained from the loader for that call and any transient open of the source
\* file by the secondary backend have been closed.
HandlesClosedAfterCall ==
    Called => handles.document # "open" /\ handles.pdf # "open"

(***************************************************************************)
(* SpecLocations: the four operations on documents whose elements carry    *)
(* their own position.  The element at position i is either there, with    *)
(* the mark Tag(i) in its text, URL, cell, name or relationship id (and i   *)
(* as its image reference), or it is missing, empty or unreadable.         *)
(***************************************************************************)
Tag(i) == ToString(i)

Patterns(n) == UNION {[1..k -> BOOLEAN] : k \in 0..n}

TaggedGrid(i) == << <<(<<Tag(i)>>)>> >>

TaggedPage(i, there) ==
    IF there
    THEN [LinePage(UrlA \o <<Tag(i)>>) EXCEPT !.links = <<Link(Tag(i))>>,
                                             !.images = <<PageImage(i, FALSE)>>]
    ELSE EmptyPage

TaggedPageStream(there) ==
    [PageStream([i \in DOMAIN there |-> TaggedPage(i, there[i])]) EXCEPT
        !.pages = [i \in DOMAIN there |->
                      RawPage(IF there[i] THEN UrlA \o <<Tag(i)>> ELSE <<>>)]]

TaggedPdf(there) ==
    [open_raises |-> FALSE,
     pages |-> [i \in DOMAIN there |->
                   IF there[i] THEN PlumberPage(UrlA \o <<Tag(i)>>, TaggedGrid(i))
                   ELSE PlumberPage(<<>>, <<>>)]]

TaggedFlow(there) ==
    [FlowDocument(<<>>, [i \in DOMAIN there |-> Table(TaggedGrid(i))]) EXCEPT
        !.inline_shapes = [i \in DOMAIN there |->
                              [raises |-> ~there[i], name |-> Tag(i), blob |-> <<"x">>,
                               width |-> 1, height |-> 1]],
        !.element = [xpath_raises |-> FALSE,
                     drawings |-> [i \in DOMAIN there |->
                                      [raises |-> ~there[i], rId |-> Tag(i),
                                       blob |-> <<"x">>]]]]

TaggedShape(i) ==
    [EmptyShape EXCEPT
        !.attrs = {"shape_id", "text", "click_action", "has_table", "table", "shape_type"},
        !.text = <<Tag(i)>>,
        !.click_action = [truthy |-> TRUE, raises |-> FALSE, hyperlink |-> UrlA \o <<Tag(i)>>],
        !.has_table = TRUE,
        !.table = Table(TaggedGrid(i)),
        !.shape_type = "PICTURE",
        !.image = [NoImage EXCEPT !.blob = <<Tag(i)>>]]

TaggedRel(i) ==
    [reltype |-> <<"image">>, raises |-> FALSE, rId |-> Tag(i),
     target_part |-> [has_ext |-> TRUE, ext |-> "png", blob |-> <<"x">>]]

TaggedDeck(there) ==
    SlideDeck([i \in DOMAIN there |->
                  [NumberedSlide(i, IF there[i] THEN <<TaggedShape(i)>>
                                    ELSE <<TableShape(<<>>)>>)
                      EXCEPT !.rels = <<TaggedRel(i)>>]])

InitLocations ==
    /\ \/ \E there \in Patterns(MaxPages) :
             /\ loader = Loads(TaggedPageStream(there))
             /\ env \in [fitz : BOOLEAN, pdfplumber : BOOLEAN, pdf : {TaggedPdf(there)}]
       \/ /\ loader \in {Loads(TaggedFlow(there)) : there \in Patterns(MaxParas)}
                        \cup {Loads(TaggedDeck(there)) : there \in Patterns(MaxSlides)}
          /\ env = Environment(TRUE, TRUE, EmptyPdf)
    /\ op = "none"
    /\ outcome = NoCall
    /\ prev = NoPrev
    /\ handles = NoHandles /\ process = NoProcess

SpecLocations == InitLocations /\ [][Next]_vars

\* the mark the source element of a record left in it
MarkOf(r) ==
    CASE "line_text" \in DOMAIN r -> r.line_text[Len(r.line_text)]
      [] "xref" \in DOMAIN r -> ToString(r.xref)
      [] "rect" \in DOMAIN r -> r.uri
      [] "uri" \in DOMAIN r -> r.uri[Len(r.uri)]
      [] "url" \in DOMAIN r -> r.url[Len(r.url)]
      [] "data" \in DOMAIN r -> r.data[1][1][1]
      [] "filename" \in DOMAIN r -> r.filename
      [] "rId" \in DOMAIN r -> r.rId
      [] "image_id" \in DOMAIN r -> ToString(r.image_id \div 10)
      [] "shapes" \in DOMAIN r -> r.shapes[1].text[1]
      [] "text" \in DOMAIN r -> IF r.text = <<>> THEN "" ELSE r.text[Len(r.text)]
      [] OTHER -> ""

\* C16: every location field of every emitted record (page, slide,
\* table_index, index, floating_index) is at least 1 and is the 0-based
\* position of the record's source element plus one, in the four operations
\* and all variants.
LocationsAreOneBased ==
    (Called /\ outcome.status = "returned") =>
        \A k \in 1..Len(outcome.value) :
            LET r == outcome.value[k]
            IN  /\ \A f \in {"page", "slide", "index", "floating_index"} \cap DOMAIN r :
                       /\ r[f] >= 1
                       /\ MarkOf(r) # "" => ToString(r[f]) = MarkOf(r)
                /\ "table_index" \in DOMAIN r =>
                       /\ r.table_index >= 1
                       /\ IF "slide" \in DOMAIN r
                          THEN Filter(YieldsRecord, DeckTableShapes)[r.table_index].slide
                                  = r.slide
                          ELSE ToString(r.table_index) = MarkOf(r)

\* the only image of a document is on its second page
LocationAfterGapReached ==
    /\ op = "extract_images" /\ outcome.variant = "page_stream"
    /\ Len(outcome.value) = 1
    /\ outcome.value[1].page = 2

\* what an operation gives on the loader's document, called on a new DataExtractor
ResultOf(name) ==
    CASE name = "extract_text" -> extract_text(loader, env)
      [] name = "extract_links" -> extract_links(loader, env)
      [] name = "extract_images" -> extract_images(loader, env)
      [] name = "extract_tables" -> extract_tables(loader, env)

DeckImagesReturned == op = "extract_images" /\ outcome.variant = "slide_deck"

\* the picture shapes of the deck, in slide order then shape order
PictureShapes ==
    Filter(LAMBDA item : "shape_type" \in item.shape.attrs /\ item.shape.shape_type = "PICTURE",
           deck_shapes(loader.document.slides))

\* C18: in slide-deck image extraction the relationship scan runs if and only
\* if the shape walk found no image in the whole deck; when the walk found an
\* image on any slide the result is the walk's records, in slide order then
\* shape order, with no relationship record even for the slides where the walk
\* found nothing.
RelationshipScanOnlyWhenWalkEmpty ==
    DeckImagesReturned =>
        IF PictureShapes # <<>>
        THEN /\ Len(outcome.value) = Len(PictureShapes)
             /\ \A k \in 1..Len(outcome.value) :
                   /\ "rId" \notin DOMAIN outcome.value[k]
                   /\ outcome.value[k].slide = PictureShapes[k].slide
                   /\ outcome.value[k].image_id = PictureShapes[k].shape.shape_id
        ELSE /\ Len(outcome.value) = Len(loader.document.slides)
             /\ \A k \in 1..Len(outcome.value) :
                   /\ "rId" \in DOMAIN outcome.value[k]
                   /\ outcome.value[k].slide = k

\* the walk found the picture of the second slide and nothing on the first,
\* whose relationship table holds an image
WalkFoundOnOneSlideReached ==
    /\ DeckImagesReturned
    /\ Len(loader.document.slides) = 2
    /\ Len(PictureShapes) = 1 /\ PictureShapes[1].slide = 2
    /\ loader.document.slides[1].rels # <<>>
    /\ Len(outcome.value) = 1

(***************************************************************************)
(* SpecShapeTree: extract_images on a deck whose last slide holds one      *)
(* shape: a picture, a picture-filled shape, a shape whose markup refers   *)
(* to an embedded image, or a group of such shapes.                        *)
(***************************************************************************)
PictureShape ==
    [EmptyShape EXCEPT !.attrs = {"shape_id", "shape_type"},
                       !.shape_type = "PICTURE",
                       !.image = [NoImage EXCEPT !.blob = <<"p">>, !.width = 4, !.height = 3]]

FilledShape ==
    [EmptyShape EXCEPT !.attrs = {"shape_id", "shape_type", "fill"},
                       !.fill = [type |-> "PICTURE",
                                 picture |-> [NoImage EXCEPT !.blob = <<"f">>]]]

RelatedPart == [raises |-> FALSE, blob |-> <<"m">>, has_ext |-> TRUE, ext |-> "jpg"]

\* the shape with an a:blip in its markup whose r:embed is rId, and a part
\* relationship table holding related_part under "rId1"
WithMarkup(shape, rId, related_part) ==
    [shape EXCEPT !.element = [xpath_raises |-> FALSE, blips |-> <<[embed |-> rId]>>],
                  !.part = [has_related_parts |-> TRUE,
                            related_parts |-> ("rId1" :> related_part)]]

LeafShapes ==
    {EmptyShape, PictureShape, FilledShape,
     [PictureShape EXCEPT !.image.raises = TRUE],
     [EmptyShape EXCEPT !.element.xpath_raises = TRUE],
     WithMarkup(EmptyShape, "rId1", RelatedPart),
     WithMarkup(PictureShape, "rId1", RelatedPart),
     WithMarkup(EmptyShape, "rId9", RelatedPart),
     WithMarkup(EmptyShape, "rId1", [RelatedPart EXCEPT !.raises = TRUE]),
     WithMarkup([EmptyShape EXCEPT !.attrs = {}], "rId1", [RelatedPart EXCEPT !.has_ext = FALSE])}

\* a group: its children are numbered 1, 2, ... as shape ids
GroupShape(children) ==
    [EmptyShape EXCEPT !.attrs = {"shape_id", "shape_type", "shapes"},
                       !.shape_type = "GROUP",
                       !.shapes = [k \in 1..Len(children) |->
                                      [children[k] EXCEPT !.shape_id = k]]]

ShapeTrees ==
    LeafShapes
       \cup {GroupShape(children) : children \in SeqsUpTo(LeafShapes, 2)}
       \cup {GroupShape(<<GroupShape(<<PictureShape>>), FilledShape>>),
             [GroupShape(<<PictureShape>>) EXCEPT !.shape_type = "PICTURE",
                                                  !.image = PictureShape.image],
             [GroupShape(<<>>) EXCEPT !.attrs = @ \cup {"fill"}, !.fill = FilledShape.fill]}

InitShapeTree ==
    /\ loader \in {Loads(NumberedDeck([i \in 1..n |-> IF i = n THEN <<tree>> ELSE <<>>])) :
                      n \in 1..MaxSlides, tree \in ShapeTrees}
    /\ env \in [fitz : BOOLEAN, pdfplumber : {FALSE}, pdf : {EmptyPdf}]
    /\ op = "none"
    /\ outcome = NoCall
    /\ prev = NoPrev
    /\ handles = NoHandles /\ process = NoProcess

SpecShapeTree == InitShapeTree /\ [][ExtractImages]_vars

\* the shape of the last slide, and that slide's index
TopShape == loader.document.slides[Len(loader.document.slides)].shapes[1]

\* C19 (as claimed): for a shape that exposes a child-shape collection the
\* flattener returns the concatenation, in child order, of the records of its
\* children, each with the owning slide index, and no record for the group
\* itself: the picture checks and the markup fallback are not applied to it.
GroupYieldsChildrenOnly ==
    (DeckImagesReturned /\ "shapes" \in TopShape.attrs) =>
        /\ outcome.value
              = Concat(Map(LAMBDA child :
                              extract_ppt_images_from_shape(child, Len(loader.document.slides)),
                           TopShape.shapes))
        /\ \A k \in 1..Len(outcome.value) : outcome.value[k].image_id # TopShape.shape_id

\* C20 (as claimed): for a shape without children that is a picture or has a
\* picture fill, the flattener returns at most one record, the one made from
\* the decoded image (with width and height), and no markup-derived record.
PictureYieldsOneRecord ==
    (DeckImagesReturned /\ "shapes" \notin TopShape.attrs
        /\ (TopShape.shape_type = "PICTURE" \/ TopShape.fill.type = "PICTURE")) =>
        /\ Len(outcome.value) <= 1
        /\ \A k \in 1..Len(outcome.value) :
              /\ outcome.value[k].width # -1
              /\ outcome.value[k].height # -1

\* the shape of the last slide has no children and is not detected as a picture
TopShapeIsPlain ==
    /\ "shapes" \notin TopShape.attrs
    /\ ~("shape_type" \in TopShape.attrs /\ TopShape.shape_type = "PICTURE")
    /\ ~("fill" \in TopShape.attrs /\ TopShape.fill.type = "PICTURE")

\* the markup of the shape holds an image reference that its part resolves
\* and whose related part can be read
MarkupResolves ==
    /\ ~TopShape.element.xpath_raises
    /\ TopShape.element.blips # <<>>
    /\ TopShape.element.blips[1].embed \in DOMAIN TopShape.part.related_parts
    /\ ~TopShape.part.related_parts[TopShape.element.blips[1].embed].raises

\* C21: for a shape without children that is not detected as a picture, a
\* markup image reference that resolves in the part's relationship table gives
\* exactly one record: slide index, shape id, encoded payload, the related
\* part's format (or "unknown") and null width and height; without a
\* reference, when it does not resolve or when the lookup raises, there is no
\* record and nothing is raised.
MarkupFallbackRecord ==
    (DeckImagesReturned /\ TopShapeIsPlain) =>
        /\ outcome.status = "returned"
        /\ outcome.value
              = IF MarkupResolves
                THEN LET part == TopShape.part.related_parts[TopShape.element.blips[1].embed]
                     IN  <<[slide    |-> Len(loader.document.slides),
                            image_id |-> IF "shape_id" \in TopShape.attrs
                                         THEN TopShape.shape_id ELSE -1,
                            blob     |-> <<"base64">> \o part.blob,
                            format   |-> IF part.has_ext THEN part.ext ELSE "unknown",
                            width    |-> -1,
                            height   |-> -1]>>
                ELSE <<>>

\* a markup-derived record of a shape of the second slide
MarkupFallbackReached ==
    /\ DeckImagesReturned /\ TopShapeIsPlain /\ MarkupResolves
    /\ Len(loader.document.slides) = 2
    /\ Len(outcome.value) = 1
    /\ outcome.value[1].slide = 2

\* the URLs of page i as the tiers give them: the layout-aware text, else the
\* reflowed raw text, else nothing
TieredUrls(i) ==
    IF env.pdfplumber /\ ~env.pdf.open_raises /\ ~env.pdf.pages[i].layout_raises
    THEN find_urls(env.pdf.pages[i].layout_text)
    ELSE IF RawRaises(i) THEN <<>>
    ELSE find_urls(merge_lines(IF loader.document.pages[i].has_extract_text
                               THEN loader.document.pages[i].raw_text ELSE <<>>))

\* C22 (as claimed): in link extraction on the alternate backend each page's
\* text comes from the layout-aware extraction and, when that fails, from the
\* raw extraction and the reflow; a page whose extraction fails gives no
\* record and no error, and the URL matches of every other page, before and
\* after it, are emitted, one record per match with empty contextual text.
AltLinksPageByPage ==
    (op = "extract_links" /\ outcome.variant = "alt_page_stream") =>
        /\ outcome.status = "returned"
        /\ \A i \in 1..Len(loader.document.pages) :
              Filter(LAMBDA r : r.page = i, outcome.value)
                 = Map(LAMBDA url : [page |-> i, uri |-> url, contents |-> <<>>],
                       TieredUrls(i))

(***************************************************************************)
(* SpecPageTables: extract_tables on page-stream documents.  The secondary *)
(* backend may be missing or fail to open; each of its pages holds a       *)
(* table, holds none, or raises when asked for one.                        *)
(***************************************************************************)
TablePageSamples ==
    {PlumberPage(<<>>, <<>>),
     PlumberPage(<<>>, << <<"a", "b">> >>),
     [PlumberPage(<<>>, <<>>) EXCEPT !.table_raises = TRUE]}

InitPageTables ==
    /\ \E pages \in SeqsUpTo(TablePageSamples, MaxPages) :
          /\ loader = Loads(PageStream([i \in 1..Len(pages) |-> EmptyPage]))
          /\ env \in [fitz : BOOLEAN, pdfplumber : BOOLEAN,
                      pdf : [open_raises : BOOLEAN, pages : {pages}]]
    /\ op = "none"
    /\ outcome = NoCall
    /\ prev = NoPrev
    /\ handles = NoHandles /\ process = NoProcess

SpecPageTables == InitPageTables /\ [][ExtractTables]_vars

IsWarning(r) == "warning" \in DOMAIN r

\* the secondary backend is missing, raises, or finds no table on any page
NoTablesToReturn ==
    \/ ~env.pdfplumber
    \/ env.pdf.open_raises
    \/ \E i \in 1..Len(env.pdf.pages) : env.pdf.pages[i].table_raises
    \/ \A i \in 1..Len(env.pdf.pages) : env.pdf.pages[i].table = <<>>

\* C23 (as claimed): page-stream table extraction returns either table
\* records only, or exactly one warning record and no table record; the
\* warning replaces the table records when the secondary backend is
\* unavailable, when it raises on any page (also after earlier pages gave
\* tables) or when no page has a table; the operation does not raise.
WarningReplacesTables ==
    (op = "extract_tables" /\ outcome.variant = "page_stream") =>
        /\ outcome.status = "returned"
        /\ IF NoTablesToReturn
           THEN Len(outcome.value) = 1 /\ IsWarning(outcome.value[1])
           ELSE /\ outcome.value # <<>>
                /\ \A k \in 1..Len(outcome.value) : ~IsWarning(outcome.value[k])


(***************************************************************************)
(* SpecReflow: extract_text on a one-page document of the alternate        *)
(* backend whose raw page text is any text of at most MaxLen characters    *)
(* over letters, sentence ends, spaces and line breaks; the secondary      *)
(* backend is not importable, so the page's record holds                   *)
(* merge_lines(page.extract_text()).                                       *)
(***************************************************************************)
ReflowChars == {"a", ".", " ", "\n"}

InitReflow ==
    /\ \E raw_text \in SeqsUpTo(ReflowChars, MaxLen) :
          loader = Loads([EmptyDocument EXCEPT !.attrs = {"pages"},
                                               !.pages = <<RawPage(raw_text)>>])
    /\ env = Environment(FALSE, FALSE, EmptyPdf)
    /\ op = "none"
    /\ outcome = NoCall
    /\ prev = NoPrev
    /\ handles = NoHandles /\ process = NoProcess

SpecReflow == InitReflow /\ [][ExtractText]_vars

Reflowed == op = "extract_text" /\ outcome.status = "returned"

RawText == loader.document.pages[1].raw_text

ReflowedText == outcome.value[1].text

\* the trimmed lines of the raw text that are not blank, in order
KeptLines == Filter(LAMBDA l : l # <<>>, Map(strip, splitlines(RawText)))

\* what follows line m in the result: nothing after the last line, a blank
\* line after a line that ends a sentence, a single space otherwise
AfterLine(m) ==
    IF m = Len(KeptLines) THEN <<>>
    ELSE IF KeptLines[m][Len(KeptLines[m])] \in TerminalPunctuation THEN <<"\n", "\n">>
    ELSE <<" ">>

\* C24: merge_lines keeps the trimmed non-blank lines, all of them and in
\* order; a line that ends in terminal punctuation closes its unit and is
\* followed by a blank line, any other line is followed by a single space and
\* the next line; so every unit but the last ends in terminal punctuation.
ReflowPartitionsLines ==
    Reflowed =>
        /\ ReflowedText = Concat([m \in 1..Len(KeptLines) |-> KeptLines[m] \o AfterLine(m)])
        /\ \A k \in 2..Len(ReflowedText) :
              ReflowedText[k] = "\n" => ReflowedText[k - 1] \in TerminalPunctuation \cup {"\n"}

\* three lines: the second is joined to the first and closes the unit
ReflowPartitionReached ==
    /\ Reflowed
    /\ Len(KeptLines) = 3
    /\ ReflowedText = <<"a", " ", ".", "\n", "\n", "a">>

\* C29: merge_lines is idempotent: reflowing a reflowed text gives it back.
ReflowIsIdempotent ==
    Reflowed => merge_lines(ReflowedText) = ReflowedText

\* a text the reflow changes, in two units of which one has two lines
ReflowChangedTextReached ==
    /\ Reflowed
    /\ ReflowedText # RawText
    /\ Contains(ReflowedText, <<"\n", "\n">>)
    /\ Contains(ReflowedText, <<"a", " ">>) \/ Contains(ReflowedText, <<".", " ">>)


\* C25 (as claimed): every run record of a flow document replaces an absent
\* attribute by its default: font is "DefaultFont" when the run has no font
\* name and the font name otherwise, size is 11 when no size is set,
\* bold/italic/underline are false when unset, color is "000000" when no
\* color value is set; no run record carries a null in these fields.
FlowRunDefaults ==
    (op = "extract_text" /\ outcome.status = "returned" /\ outcome.variant = "flow") =>
        \A k \in 1..Len(outcome.value) :
            \A j \in 1..Len(outcome.value[k].runs) :
                LET run == loader.document.paragraphs[k].runs[j]
                    record == outcome.value[k].runs[j]
                IN  /\ record.font = IF run.font.name = None THEN "DefaultFont"
                                     ELSE run.font.name
                    /\ record.size = IF run.font.size.set THEN run.font.size.pt ELSE 11
                    /\ record.bold = IF run.bold = None THEN "False" ELSE run.bold
                    /\ record.italic = IF run.italic = None THEN "False" ELSE run.italic
                    /\ record.underline = IF run.underline = None THEN "False"
                                          ELSE run.underline
                    /\ record.color = IF run.font.color.rgb = None THEN "000000"
                                      ELSE run.font.color.rgb
                    /\ None \notin {record.font, record.bold, record.italic,
                                    record.underline, record.color}


(***************************************************************************)
(* SpecFontStyle: extract_text on a one-page document of the primary       *)
(* backend whose only span has a font name made of at most MaxPieces       *)
(* pieces: the three style words, their lower-case spellings, a style      *)
(* word cut in two, and a separator.  The empty name is the span without   *)
(* a font.                                                                 *)
(***************************************************************************)
FontNamePieces ==
    { <<"B", "o", "l", "d">>, <<"I", "t", "a", "l", "i", "c">>,
      <<"O", "b", "l", "i", "q", "u", "e">>,
      <<"b", "o", "l", "d">>, <<"i", "t", "a", "l", "i", "c">>,
      <<"o", "b", "l", "i", "q", "u", "e">>,
      <<"B", "o", "l">>, <<"d">>, <<"-">> }

FontNameSamples == {Concat(pieces) : pieces \in SeqsUpTo(FontNamePieces, MaxPieces)}

InitFontStyle ==
    /\ \E font_name \in FontNameSamples :
          loader = Loads(PageStream(<<[EmptyPage EXCEPT !.blocks =
                      <<TextBlock(<<[spans |-> <<Span(<<"a">>, font_name)>>]>>)>>]>>))
    /\ env = Environment(TRUE, FALSE, EmptyPdf)
    /\ op = "none"
    /\ outcome = NoCall
    /\ prev = NoPrev
    /\ handles = NoHandles /\ process = NoProcess

SpecFontStyle == InitFontStyle /\ [][ExtractText]_vars

\* the word stands somewhere in the name, letter for letter
Occurs(word, name) ==
    \E k \in 1..Len(name) :
        /\ k + Len(word) - 1 <= Len(name)
        /\ \A j \in 1..Len(word) : name[k + j - 1] = word[j]

SpanRecords ==
    IF op = "extract_text" /\ outcome.status = "returned" /\ outcome.variant = "page_stream"
    THEN Concat([k \in 1..(Len(outcome.value) - 1) |-> outcome.value[k + 1].spans])
    ELSE <<>>

SourceFont == loader.document.fitz_pages[1].blocks[1].lines[1].spans[1].font

\* C26: every span record of page-stream text carries its font name with
\* bold true iff the name contains "Bold" and italic true iff the name
\* contains "Italic" or "Oblique", case-sensitively and independently of each
\* other; both are false for an absent or empty name.
FontStyleFromName ==
    /\ op = "extract_text" => Len(SpanRecords) = 1
    /\ \A k \in 1..Len(SpanRecords) :
          LET span == SpanRecords[k]
          IN  /\ span.font = SourceFont
              /\ span.bold = Occurs(<<"B", "o", "l", "d">>, span.font)
              /\ span.italic = (\/ Occurs(<<"I", "t", "a", "l", "i", "c">>, span.font)
                                \/ Occurs(<<"O", "b", "l", "i", "q", "u", "e">>, span.font))
              /\ span.font = <<>> => ~span.bold /\ ~span.italic

\* a name holding "Oblique" and a lower-case "bold": italic only
FontStyleReached ==
    /\ Len(SpanRecords) = 1
    /\ SpanRecords[1].font = <<"b", "o", "l", "d", "O", "b", "l", "i", "q", "u", "e">>
    /\ SpanRecords[1].italic /\ ~SpanRecords[1].bold


\* C27 (as claimed): extract_text on the alternate backend returns exactly one
\* record per page, in page order: the pages 1, 2, ..., P, none repeated and
\* none missing, whichever tier produced each page's text, also when the
\* layout-aware extraction fails after it produced records for earlier pages.
AltTextOneRecordPerPage ==
    AltTextReturned =>
        /\ outcome.status = "returned"
        /\ Len(outcome.value) = Len(loader.document.pages)
        /\ \A k \in 1..Len(outcome.value) : outcome.value[k].page = k


(***************************************************************************)
(* SpecProcess: process_file on files of the three kinds, under names of   *)
(* any extension and any storage method.  The file may be missing or fail  *)
(* to open, and its images or tables may be unreadable; the primary        *)
(* backend is importable, as main.py imports the loaders.                  *)
(***************************************************************************)
FilepathSamples ==
    { <<"a", ".", "p", "d", "f">>, <<"a", ".", "P", "D", "F">>,
      <<"a", ".", "d", "o", "c", "x">>, <<"a", ".", "p", "p", "t">>,
      <<"a", ".", "P", "p", "t", "X">>, <<"a", ".", "t", "x", "t">>,
      <<"p", "d", "f">> }

StorageMethodSamples == {"file", "sql", "csv"}

ProcessedDocuments ==
    {PageStream(<<[EmptyPage EXCEPT !.images = images]>>) : images \in ImageListSamples}
        \cup {FlowDocument(<<>>, tables) : tables \in TableListSamples}
        \cup {NumberedDeck(<<shapes>>) : shapes \in TableShapeListSamples}

InitProcess ==
    /\ \E document \in ProcessedDocuments :
          loader \in {Loads(document), [Loads(document) EXCEPT !.exists = FALSE],
                      [Loads(document) EXCEPT !.opens = FALSE]}
    /\ env \in [fitz : {TRUE}, pdfplumber : BOOLEAN, pdf : {EmptyPdf}]
    /\ op = "none"
    /\ outcome = NoCall
    /\ prev = NoPrev
    /\ handles = NoHandles /\ process = NoProcess

NextProcess ==
    \E filepath \in FilepathSamples, storage_method \in StorageMethodSamples :
        ProcessFile(filepath, storage_method)

SpecProcess == InitProcess /\ [][NextProcess]_vars

Processed == op = "process_file"

\* the positions of the calls of process_file to the named function
CallsTo(call) == {k \in 1..Len(process.calls) : process.calls[k].call = call}

\* the extension of the file name is one of .pdf, .docx, .ppt, .pptx
ExtensionSupported ==
    \E extension \in { <<".", "p", "d", "f">>, <<".", "d", "o", "c", "x">>,
                       <<".", "p", "p", "t">>, <<".", "p", "p", "t", "x">> } :
        /\ Len(process.filepath) >= Len(extension)
        /\ \A j \in 1..Len(extension) :
              LET c == process.filepath[Len(process.filepath) - Len(extension) + j]
              IN  c = extension[j] \/ \E i \in 1..26 : c = UpperCase[i] /\ LowerCase[i] = extension[j]

AnExtractionRaises ==
    \E j \in 1..4 : extraction(ExtractionOrder[j], loader, env).status = "raised"

\* C28: process_file makes no store_data call unless the extractions of
\* text, links, images and tables, run in that order, have all returned: an
\* unsupported extension raises before any loader or extraction call, an
\* extraction that raises or an unsupported storage method leaves nothing
\* stored, and otherwise store_data is called four times, for text, links,
\* images and tables in that order.
StoresOnlyAfterAllExtractions ==
    Processed =>
        /\ \A s \in CallsTo("store_data") :
              /\ \A j \in 1..4 :
                    \E k \in CallsTo(ExtractionOrder[j]) :
                        k < s /\ ~process.calls[k].raised
              /\ \A k \in 1..Len(process.calls) : process.calls[k].raised => s < k
        /\ \A i, j \in 1..4 :
              \A k \in CallsTo(ExtractionOrder[i]), l \in CallsTo(ExtractionOrder[j]) :
                  i < j => k < l
        /\ ~ExtensionSupported => process.calls = <<>> /\ outcome.status = "raised"
        /\ (AnExtractionRaises \/ process.storage_method \notin {"file", "sql"})
              => CallsTo("store_data") = {} /\ outcome.status = "raised"
        /\ (ExtensionSupported /\ ~AnExtractionRaises
                /\ process.storage_method \in {"file", "sql"})
              => /\ outcome.status = "returned"
                 /\ Cardinality(CallsTo("store_data")) = 4
                 /\ \A j \in 1..4 :
                       \E s \in CallsTo("store_data") :
                           /\ process.calls[s].arg = DataTypes[j]
                           /\ Cardinality({t \in CallsTo("store_data") : t < s}) = j - 1

\* a file named in upper case, extracted and stored in the database
ProcessStoredReached ==
    /\ Processed
    /\ process.filepath = <<"a", ".", "P", "D", "F">>
    /\ process.storage_method = "sql"
    /\ outcome.status = "returned"
    /\ Cardinality(CallsTo("store_data")) = 4
    /\ Cardinality(CallsTo("extract_tables")) = 1

\* the extraction of the tables raises after the three others returned
ProcessFailedLateReached ==
    /\ Processed
    /\ outcome.status = "raised"
    /\ process.storage_method = "file"
    /\ Cardinality(CallsTo("extract_tables")) = 1
    /\ CallsTo("store_data") = {}

=============================================================================
